---- MODULE Spec2Model ----
(***************************************************************************)
(* Model of the USB-CDC image receiver of esp-camera-rs                    *)
(* (examples/python_server/app.py): the frame parser of SerialProtocol,    *)
(* the per-sender reassembly maps, the timeout sweeper and the             *)
(* reconnection loop of main; and of the legacy line-and-chunk receiver    *)
(* (examples/python_server/receive_image.py).                              *)
(*                                                                         *)
(* Bytes are integers 0..255 and byte strings are sequences of them.       *)
(* Offsets are 0-based as in the Python source; the helpers below turn     *)
(* them into the 1-based positions of TLA+ sequences.  Time is the         *)
(* monotonic clock in whole seconds.                                       *)
(***************************************************************************)
EXTENDS Integers, Sequences, FiniteSets, TLC

VARIABLES
    stream,             \* harness: the bytes the serial device sends
    pos,                \* harness: how many bytes of stream were delivered
    buffer,             \* SerialProtocol.buffer
    frame_start_time,   \* SerialProtocol.frame_start_time
    image_buffers,      \* global: sender_mac -> bytes received so far
    last_receive_time,  \* global: sender_mac -> monotonic time of last DATA
    tasks,              \* save_image tasks created, in creation order
    now,                \* time.monotonic()
    next_sweep,         \* when check_timeouts wakes from asyncio.sleep
    pc,                 \* where main's reconnection loop stands
    wake,               \* when main wakes from its retry sleep
    opens,              \* history: number of protocol instances created
    gaps,               \* history: positions before which the line was silent
                        \*          for more than FRAME_TIMEOUT
    last_rx,            \* history: time of the last data_received
    log,                \* history: frames accepted and warnings logged
    iters,              \* history: the loop iterations of the last process_buffer
    stuck,              \* history: the last process_buffer ran out of its variant
    transport,          \* the serial transport of main: "open" or "closed"
    future,             \* connection_lost_future of the current loop iteration
    cancelled,          \* how main was cancelled ("no", "task", "all") and
                        \*          where it stood then
    sweeper,            \* the check_timeouts task
    sink,               \* the save_image task and writer thread of each blob
    stats,              \* global: received_images and total_bytes
    files,              \* the files written, in the order the writes finished
    receiver            \* receive_image.py: the locals of receive_and_save_jpeg
                        \*          and the input of its serial port

vars == << stream, pos, buffer, frame_start_time, image_buffers,
           last_receive_time, tasks, now, next_sweep, pc, wake, opens,
           gaps, last_rx, log, iters, stuck, transport, future, cancelled,
           sweeper, sink, stats, files, receiver >>

----------------------------------------------------------------------------
(* Settings (app.py lines 16-42) *)

MAC_ADDRESS_LENGTH == 6
FRAME_TYPE_LENGTH == 1
SEQUENCE_NUM_LENGTH == 4
LENGTH_FIELD_BYTES == 4
CHECKSUM_LENGTH == 4

START_MARKER == << 250, 206, 170, 187 >>
END_MARKER == << 205, 239, 86, 120 >>

FRAME_TYPE_HASH == 1
FRAME_TYPE_DATA == 2
FRAME_TYPE_EOF == 3

HEADER_LENGTH ==
    Len(START_MARKER) + MAC_ADDRESS_LENGTH + FRAME_TYPE_LENGTH
        + SEQUENCE_NUM_LENGTH + LENGTH_FIELD_BYTES

FOOTER_LENGTH == CHECKSUM_LENGTH + Len(END_MARKER)

IMAGE_TIMEOUT == 20

\* the literal 2.0 of the frame timeout check
FRAME_TIMEOUT == 2

\* the literal 512 of the data length check
max_reasonable_data_len == 512

\* the literal 5 of main's retry sleep
RETRY_DELAY == 5

\* frame_start_time = None; the monotonic clock is always positive
None == -1

----------------------------------------------------------------------------
(* Python's bytes operations *)

\* buf[a:b] for 0 <= a <= b <= len(buf)
Slice(buf, a, b) == SubSeq(buf, a + 1, b)

\* buf[a:]
From(buf, a) == SubSeq(buf, a + 1, Len(buf))

\* buf[-k:] for 0 < k <= len(buf)
Last(buf, k) == SubSeq(buf, Len(buf) - k + 1, Len(buf))

\* buf.find(pat, start): the lowest offset >= start where pat occurs, or -1
Find(buf, pat, start) ==
    LET hits == { i \in start..(Len(buf) - Len(pat)) :
                    SubSeq(buf, i + 1, i + Len(pat)) = pat }
    IN  IF hits = {} THEN -1
        ELSE CHOOSE i \in hits : \A j \in hits : i <= j

\* IntFromBytes reading the four bytes with byteorder="little"
IntFromBytesLittle(bs) ==
    [ hi |-> bs[4] * 256 + bs[3], lo |-> bs[2] * 256 + bs[1] ]

\* int.from_bytes(bs, byteorder="big") of four bytes.  The value is an
\* unsigned 32-bit number; it is kept as its two 16-bit halves, because the
\* integers of the model checker are signed 32-bit.
IntFromBytes(bs) ==
    [ hi |-> bs[1] * 256 + bs[2], lo |-> bs[3] * 256 + bs[4] ]

\* v > n for an unsigned 32-bit v and 0 <= n < 65536
GreaterThan(v, n) == v.hi > 0 \/ v.lo > n

\* the value of v when it is below 65536
Small(v) == v.lo

HexDigits ==
    << "0", "1", "2", "3", "4", "5", "6", "7",
       "8", "9", "a", "b", "c", "d", "e", "f" >>

\* f"{b:02x}"
Hex2(b) == << HexDigits[(b \div 16) + 1], HexDigits[(b % 16) + 1] >>

RECURSIVE JoinColon(_)
JoinColon(parts) ==
    IF Len(parts) = 0 THEN << >>
    ELSE IF Len(parts) = 1 THEN parts[1]
    ELSE parts[1] \o << ":" >> \o JoinColon(Tail(parts))

\* sender_mac = ":".join(f"{b:02x}" for b in mac_bytes)
MacStr(mac_bytes) ==
    JoinColon([ i \in 1..Len(mac_bytes) |-> Hex2(mac_bytes[i]) ])

\* del d[k]
Del(d, k) == [ x \in DOMAIN d \ {k} |-> d[x] ]

\* d[k] = v
Put(d, k, v) == [ x \in DOMAIN d \cup {k} |-> IF x = k THEN v ELSE d[x] ]

----------------------------------------------------------------------------
(* History records.  Every record has the same fields; ev tells which apply. *)

NoSeq == [ hi |-> 0, lo |-> 0 ]

\* a frame that passed the end marker check (line 262)
FrameEvent(frame_type, mac, seq, payload, had, blobs, same, t) ==
    [ ev |-> "frame", kind |-> frame_type, mac |-> mac, seq |-> seq,
      payload |-> payload, had |-> had, blobs |-> blobs, same |-> same,
      n |-> 0, at |-> t ]

\* a logger.warning of the parser: ev is "timeout", "discard", "bad_len" or
\* "bad_end", n the number of bytes the warning reports (0 when it has none)
Warning(ev, mac, n, t) ==
    [ ev |-> ev, kind |-> 0, mac |-> mac, seq |-> NoSeq, payload |-> << >>,
      had |-> FALSE, blobs |-> 0, same |-> TRUE, n |-> n, at |-> t ]

\* one iteration of the while loop of process_buffer: how it ended and the
\* buffer length before and after it
Iteration(out, before, after) ==
    [ out |-> out, before |-> before, after |-> after ]

----------------------------------------------------------------------------
(* SerialProtocol.  c is the state process_buffer works on: the fields of   *)
(* the protocol instance, the two global maps, the tasks created and the    *)
(* history; go tells whether the while loop continues.                      *)

\* __init__: a new protocol instance
NewBuffer == << >>

\* TimeoutCheck leaving the timer armed after it dropped the candidate
TimeoutCheckKeepTimer(c, t) ==
    IF c.frame_start_time # None /\ t - c.frame_start_time > FRAME_TIMEOUT
    THEN LET start_index_after_timeout == Find(c.buffer, START_MARKER, 1)
         IN  [ c EXCEPT
                 !.buffer = IF start_index_after_timeout # -1
                            THEN From(c.buffer, start_index_after_timeout)
                            ELSE << >>,
                 !.log = Append(@, Warning("timeout", << >>,
                            IF start_index_after_timeout # -1
                            THEN start_index_after_timeout ELSE 0, t)) ]
    ELSE c

\* TimeoutCheck letting a candidate live one second longer
TimeoutCheckLate(c, t) ==
    IF c.frame_start_time # None /\ t - c.frame_start_time > FRAME_TIMEOUT + 1
    THEN LET start_index_after_timeout == Find(c.buffer, START_MARKER, 1)
         IN  [ c EXCEPT
                 !.buffer = IF start_index_after_timeout # -1
                            THEN From(c.buffer, start_index_after_timeout)
                            ELSE << >>,
                 !.frame_start_time = None,
                 !.log = Append(@, Warning("timeout", << >>,
                            IF start_index_after_timeout # -1
                            THEN start_index_after_timeout ELSE 0, t)) ]
    ELSE c

\* frame timeout check at the head of the loop
TimeoutCheck(c, t) ==
    IF c.frame_start_time # None /\ t - c.frame_start_time > FRAME_TIMEOUT
    THEN LET start_index_after_timeout == Find(c.buffer, START_MARKER, 1)
         IN  [ c EXCEPT
                 !.buffer = IF start_index_after_timeout # -1
                            THEN From(c.buffer, start_index_after_timeout)
                            ELSE << >>,
                 !.frame_start_time = None,
                 !.log = Append(@, Warning("timeout", << >>,
                            IF start_index_after_timeout # -1
                            THEN start_index_after_timeout ELSE 0, t)) ]
    ELSE c

\* KeepTail keeping the whole buffer
KeepTailWhole(buf) == buf

\* KeepTail with the keep region one byte too short
KeepTailShort(buf) ==
    IF Len(buf) >= Len(START_MARKER)
    THEN Last(buf, Len(START_MARKER) - 2)
    ELSE buf

\* no start marker in the buffer: keep its last len(START_MARKER) - 1 bytes
KeepTail(buf) ==
    IF Len(buf) >= Len(START_MARKER)
    THEN Last(buf, Len(START_MARKER) - 1)
    ELSE buf

\* SkipToNextMarker searching from offset 0, where the current marker is
SkipToNextMarkerFromZero(buf) ==
    LET next_start == Find(buf, START_MARKER, 0)
    IN  IF next_start # -1 THEN From(buf, next_start) ELSE << >>

\* SkipToNextMarker searching from the end of the rejected header
SkipToNextMarkerPastHeader(buf) ==
    LET next_start == Find(buf, START_MARKER, HEADER_LENGTH)
    IN  IF next_start # -1 THEN From(buf, next_start) ELSE << >>

\* drop the current start marker: cut to the next one or clear the buffer
SkipToNextMarker(buf) ==
    LET next_start == Find(buf, START_MARKER, 1)
    IN  IF next_start # -1 THEN From(buf, next_start) ELSE << >>

\* data_len > max_reasonable_data_len
BadLengthResync(c, mac, t) ==
    [ c EXCEPT !.buffer = SkipToNextMarker(c.buffer),
               !.frame_start_time = None,
               !.log = Append(@, Warning("bad_len", mac, 0, t)) ]

\* footer != END_MARKER
BadEndMarkerResync(c, mac, t) ==
    [ c EXCEPT !.buffer = SkipToNextMarker(c.buffer),
               !.frame_start_time = None,
               !.log = Append(@, Warning("bad_end", mac, 0, t)) ]

\* OnEof without the del of the sender's last_receive_time
OnEofKeepTime(c, sender_mac) ==
    IF sender_mac \in DOMAIN c.image_buffers
    THEN [ c EXCEPT
             !.tasks = Append(@, [ mac |-> sender_mac,
                                   data |-> c.image_buffers[sender_mac] ]),
             !.image_buffers = Del(@, sender_mac) ]
    ELSE c

\* OnEof handing a blob to save_image whether or not the sender has an entry
OnEofAlways(c, sender_mac) ==
    [ c EXCEPT
        !.tasks = Append(@, [ mac |-> sender_mac,
                              data |-> IF sender_mac \in DOMAIN c.image_buffers
                                       THEN c.image_buffers[sender_mac]
                                       ELSE << >> ]),
        !.image_buffers = Del(@, sender_mac),
        !.last_receive_time = Del(@, sender_mac) ]

\* OnEof without the del of the sender's entry
OnEofKeep(c, sender_mac) ==
    IF sender_mac \in DOMAIN c.image_buffers
    THEN [ c EXCEPT
             !.tasks = Append(@, [ mac |-> sender_mac,
                                   data |-> c.image_buffers[sender_mac] ]) ]
    ELSE c

\* frame_type == FRAME_TYPE_EOF
OnEof(c, sender_mac) ==
    IF sender_mac \in DOMAIN c.image_buffers
    THEN [ c EXCEPT
             !.tasks = Append(@, [ mac |-> sender_mac,
                                   data |-> c.image_buffers[sender_mac] ]),
             !.image_buffers = Del(@, sender_mac),
             !.last_receive_time =
                 IF sender_mac \in DOMAIN @ THEN Del(@, sender_mac) ELSE @ ]
    ELSE c

\* OnData making no entry for a first chunk that is empty
OnDataSkipEmpty(c, sender_mac, chunk_data, t) ==
    IF sender_mac \notin DOMAIN c.image_buffers /\ chunk_data = << >>
    THEN c
    ELSE [ c EXCEPT
             !.image_buffers =
                 Put(@, sender_mac,
                     (IF sender_mac \in DOMAIN @ THEN @[sender_mac] ELSE << >>)
                         \o chunk_data),
             !.last_receive_time = Put(@, sender_mac, t) ]

\* OnData putting the new chunk in front of the bytes already received
OnDataPrepend(c, sender_mac, chunk_data, t) ==
    LET started == IF sender_mac \notin DOMAIN c.image_buffers
                   THEN Put(c.image_buffers, sender_mac, << >>)
                   ELSE c.image_buffers
    IN  [ c EXCEPT
            !.image_buffers =
                Put(started, sender_mac, chunk_data \o started[sender_mac]),
            !.last_receive_time = Put(@, sender_mac, t) ]

\* frame_type == FRAME_TYPE_DATA
OnData(c, sender_mac, chunk_data, t) ==
    LET started == IF sender_mac \notin DOMAIN c.image_buffers
                   THEN Put(c.image_buffers, sender_mac, << >>)
                   ELSE c.image_buffers
    IN  [ c EXCEPT
            !.image_buffers =
                Put(started, sender_mac, started[sender_mac] \o chunk_data),
            !.last_receive_time = Put(@, sender_mac, t) ]

\* Dispatch taking every kind it does not know as DATA
DispatchUnknownAsData(c, frame_type, sender_mac, chunk_data, t) ==
    IF frame_type = FRAME_TYPE_HASH THEN c
    ELSE IF frame_type = FRAME_TYPE_EOF THEN OnEof(c, sender_mac)
    ELSE OnData(c, sender_mac, chunk_data, t)

\* the branch on frame_type; HASH and unknown types only log
Dispatch(c, frame_type, sender_mac, chunk_data, t) ==
    IF frame_type = FRAME_TYPE_HASH THEN c
    ELSE IF frame_type = FRAME_TYPE_EOF THEN OnEof(c, sender_mac)
    ELSE IF frame_type = FRAME_TYPE_DATA
         THEN OnData(c, sender_mac, chunk_data, t)
    ELSE c

\* AcceptFrame dropping a frame that repeats the sequence number of the
\* frame accepted before it
AcceptFrameDedup(c, frame_type, sender_mac, seq_num, chunk_data, frame_end_index, t) ==
    LET repeated == /\ c.log # << >>
                    /\ c.log[Len(c.log)].ev = "frame"
                    /\ c.log[Len(c.log)].seq = seq_num
        d == IF repeated THEN [ c EXCEPT !.frame_start_time = None ]
             ELSE Dispatch([ c EXCEPT !.frame_start_time = None ],
                           frame_type, sender_mac, chunk_data, t)
    IN  [ d EXCEPT
            !.buffer = From(c.buffer, frame_end_index),
            !.log = Append(@, FrameEvent(frame_type, sender_mac, seq_num,
                      chunk_data,
                      sender_mac \in DOMAIN c.image_buffers,
                      Len(d.tasks) - Len(c.tasks),
                      /\ d.image_buffers = c.image_buffers
                      /\ d.last_receive_time = c.last_receive_time,
                      t)) ]

\* a frame with a good end marker: reset the timer, dispatch, consume
AcceptFrame(c, frame_type, sender_mac, seq_num, chunk_data, frame_end_index, t) ==
    LET d == Dispatch([ c EXCEPT !.frame_start_time = None ],
                      frame_type, sender_mac, chunk_data, t)
    IN  [ d EXCEPT
            !.buffer = From(c.buffer, frame_end_index),
            !.log = Append(@, FrameEvent(frame_type, sender_mac, seq_num,
                      chunk_data,
                      sender_mac \in DOMAIN c.image_buffers,
                      Len(d.tasks) - Len(c.tasks),
                      /\ d.image_buffers = c.image_buffers
                      /\ d.last_receive_time = c.last_receive_time,
                      t)) ]

\* ParseFrame without the comparison of the footer with END_MARKER: every
\* complete candidate is dispatched
ParseFrameAnyFooter(c, t) ==
    LET sender_mac == MacStr(Slice(c.buffer, Len(START_MARKER),
                                   Len(START_MARKER) + MAC_ADDRESS_LENGTH))
        frame_type == c.buffer[Len(START_MARKER) + MAC_ADDRESS_LENGTH + 1]
        seq_num == IntFromBytes(Slice(c.buffer,
                       HEADER_LENGTH - LENGTH_FIELD_BYTES - SEQUENCE_NUM_LENGTH,
                       HEADER_LENGTH - LENGTH_FIELD_BYTES))
        data_len == IntFromBytes(Slice(c.buffer,
                        HEADER_LENGTH - LENGTH_FIELD_BYTES, HEADER_LENGTH))
        frame_end_index == HEADER_LENGTH + Small(data_len) + FOOTER_LENGTH
        chunk_data == Slice(c.buffer, HEADER_LENGTH,
                            HEADER_LENGTH + Small(data_len))
    IN  IF Len(c.buffer) < HEADER_LENGTH
        THEN [ c EXCEPT !.go = FALSE, !.out = "need_header" ]
        ELSE IF GreaterThan(data_len, max_reasonable_data_len)
        THEN [ BadLengthResync(c, sender_mac, t) EXCEPT !.out = "bad_len" ]
        ELSE IF Len(c.buffer) < frame_end_index
        THEN [ c EXCEPT !.go = FALSE, !.out = "need_frame" ]
        ELSE [ AcceptFrame(c, frame_type, sender_mac, seq_num, chunk_data,
                           frame_end_index, t) EXCEPT !.out = "accepted" ]

\* the part of an iteration after the start marker was found at offset 0
ParseFrame(c, t) ==
    LET header_start == Len(START_MARKER)
        mac_bytes == Slice(c.buffer, header_start,
                           header_start + MAC_ADDRESS_LENGTH)
        sender_mac == MacStr(mac_bytes)
        frame_type_pos == header_start + MAC_ADDRESS_LENGTH
        frame_type == c.buffer[frame_type_pos + 1]
        seq_num_pos == frame_type_pos + FRAME_TYPE_LENGTH
        seq_num == IntFromBytes(Slice(c.buffer, seq_num_pos,
                                      seq_num_pos + SEQUENCE_NUM_LENGTH))
        data_len_pos == seq_num_pos + SEQUENCE_NUM_LENGTH
        data_len == IntFromBytes(Slice(c.buffer, data_len_pos,
                                       data_len_pos + LENGTH_FIELD_BYTES))
        frame_end_index ==
            Len(START_MARKER) + MAC_ADDRESS_LENGTH + FRAME_TYPE_LENGTH
                + SEQUENCE_NUM_LENGTH + LENGTH_FIELD_BYTES + Small(data_len)
                + CHECKSUM_LENGTH + Len(END_MARKER)
        data_start_index ==
            Len(START_MARKER) + MAC_ADDRESS_LENGTH + FRAME_TYPE_LENGTH
                + SEQUENCE_NUM_LENGTH + LENGTH_FIELD_BYTES
        chunk_data == Slice(c.buffer, data_start_index,
                            data_start_index + Small(data_len))
        checksum_start == data_start_index + Small(data_len)
        end_marker_start == checksum_start + CHECKSUM_LENGTH
        footer == Slice(c.buffer, end_marker_start, frame_end_index)
    IN  IF Len(c.buffer) < HEADER_LENGTH
        THEN [ c EXCEPT !.go = FALSE, !.out = "need_header" ]
        ELSE IF GreaterThan(data_len, max_reasonable_data_len)
        THEN [ BadLengthResync(c, sender_mac, t) EXCEPT !.out = "bad_len" ]
        ELSE IF Len(c.buffer) < frame_end_index
        THEN [ c EXCEPT !.go = FALSE, !.out = "need_frame" ]
        ELSE IF footer = END_MARKER
        THEN [ AcceptFrame(c, frame_type, sender_mac, seq_num, chunk_data,
                           frame_end_index, t) EXCEPT !.out = "accepted" ]
        ELSE [ BadEndMarkerResync(c, sender_mac, t) EXCEPT !.out = "bad_end" ]

\* DiscardPrefix cutting one byte past start_index, into the start marker
DiscardPrefixPastMarker(c, start_index, t) ==
    [ c EXCEPT !.buffer = From(c.buffer, start_index + 1),
               !.frame_start_time = t,
               !.out = "discard_prefix",
               !.log = Append(@, Warning("discard", << >>, start_index, t)) ]

\* start_index > 0: warn with the count, cut the buffer to the start marker
\* and restart the frame timer
DiscardPrefix(c, start_index, t) ==
    [ c EXCEPT !.buffer = From(c.buffer, start_index),
               !.frame_start_time = t,
               !.out = "discard_prefix",
               !.log = Append(@, Warning("discard", << >>, start_index, t)) ]

\* one iteration of the while loop
Iterate(c0, t) ==
    LET c == [ TimeoutCheck(c0, t) EXCEPT !.go = TRUE ]
        start_index == Find(c.buffer, START_MARKER, 0)
        armed == IF c.frame_start_time = None
                 THEN [ c EXCEPT !.frame_start_time = t ]
                 ELSE c
        r == IF start_index = -1
             THEN [ c EXCEPT !.buffer = KeepTail(c.buffer),
                             !.go = FALSE, !.out = "no_marker" ]
             ELSE IF start_index > 0
             THEN DiscardPrefix(armed, start_index, t)
             ELSE ParseFrame(armed, t)
    IN  [ r EXCEPT !.iters = Append(@, Iteration(r.out, Len(c0.buffer),
                                                 Len(r.buffer))) ]

\* The while loop.  Every iteration that continues the loop is meant to
\* shorten the buffer, so a call makes at most len(buffer) such iterations;
\* fuel is that variant, and a loop that outlives it is recorded as stuck.
RECURSIVE Loop(_, _, _)
Loop(c, t, fuel) ==
    LET r == Iterate(c, t)
    IN  IF ~r.go THEN r
        ELSE IF fuel = 0 THEN [ r EXCEPT !.stuck = TRUE ]
        ELSE Loop(r, t, fuel - 1)

ProcessBuffer(c, t) ==
    Loop([ c EXCEPT !.iters = << >>, !.stuck = FALSE ], t, Len(c.buffer))

\* data_received: extend the buffer, then process it
DataReceivedOn(c, data, t) ==
    ProcessBuffer([ c EXCEPT !.buffer = c.buffer \o data ], t)

----------------------------------------------------------------------------
(* What the serial device sends *)

\* the wire layout of one frame:
\* START_MARKER + MAC + FRAME_TYPE + SEQUENCE + DATA_LEN + DATA + CHECKSUM + END_MARKER
Wire(mac_bytes, frame_type, seq_bytes, len_bytes, data, checksum, end_marker) ==
    START_MARKER \o mac_bytes \o << frame_type >> \o seq_bytes \o len_bytes
        \o data \o checksum \o end_marker

\* n < 65536 as four big-endian bytes
U32(n) == << 0, 0, n \div 256, n % 256 >>

NoChecksum == << 0, 0, 0, 0 >>

\* a well-formed frame
Frame(mac_bytes, frame_type, seq, data) ==
    Wire(mac_bytes, frame_type, U32(seq), U32(Len(data)), data, NoChecksum,
         END_MARKER)

MacA == << 0, 17, 34, 51, 68, 85 >>
MacB == << 170, 187, 204, 221, 238, 255 >>

DataA1 == Frame(MacA, FRAME_TYPE_DATA, 1, << 1, 2 >>)
DataA2 == Frame(MacA, FRAME_TYPE_DATA, 2, << 4 >>)
DataA0 == Frame(MacA, FRAME_TYPE_DATA, 3, << >>)
DataB1 == Frame(MacB, FRAME_TYPE_DATA, 1, << 3 >>)
EofA == Frame(MacA, FRAME_TYPE_EOF, 9, << >>)
EofB == Frame(MacB, FRAME_TYPE_EOF, 9, << >>)
HashA == Frame(MacA, FRAME_TYPE_HASH, 0, << 72, 65, 83, 72, 58, 97, 98 >>)
UnknownA == Frame(MacA, 7, 0, << 5 >>)

\* a DATA frame whose payload is the bytes of a start marker
DataMarkerB == Frame(MacB, FRAME_TYPE_DATA, 2, START_MARKER)

\* a header that announces DATA_LEN = 1000
BadLenA ==
    START_MARKER \o MacA \o << FRAME_TYPE_DATA >> \o U32(1) \o U32(1000)

\* a complete frame whose end marker is wrong
BadEndA ==
    Wire(MacA, FRAME_TYPE_DATA, U32(1), U32(1), << 6 >>, NoChecksum,
         << 205, 239, 86, 0 >>)

\* the header of a well-formed frame whose data never arrive
HeaderOnlyA == SubSeq(DataA1, 1, HEADER_LENGTH)

\* bytes without a start marker, ending in the first half of one
Garbage == << 7, 187, 250, 206 >>

Pieces ==
    { DataA1, DataB1, EofA, HashA, UnknownA, DataMarkerB, BadLenA, BadEndA,
      HeaderOnlyA, Garbage }

\* number of pieces a stream is made of
MaxPieces == 2

\* largest read that is not the whole rest of the stream
MaxChunk == 3

RECURSIVE Concat(_)
Concat(ps) == IF Len(ps) = 0 THEN << >> ELSE ps[1] \o Concat(Tail(ps))

Streams ==
    UNION { { Concat(ps) : ps \in [ 1..k -> Pieces ] } : k \in 1..MaxPieces }

----------------------------------------------------------------------------
(* The state machine *)

\* the state process_buffer works on
Codec ==
    [ buffer |-> buffer, frame_start_time |-> frame_start_time,
      image_buffers |-> image_buffers,
      last_receive_time |-> last_receive_time,
      tasks |-> tasks, log |-> log, iters |-> iters, stuck |-> stuck,
      go |-> TRUE, out |-> "" ]

\* asyncio.create_task(save_image(...)): the task is scheduled, not started
NewTask ==
    [ st |-> "created", io |-> "none", name |-> << >>, time |-> << >>,
      line |-> << >> ]

\* the state process_buffer leaves; every task it created joins the sink
Install(r) ==
    /\ buffer' = r.buffer
    /\ frame_start_time' = r.frame_start_time
    /\ image_buffers' = r.image_buffers
    /\ last_receive_time' = r.last_receive_time
    /\ tasks' = r.tasks
    /\ log' = r.log
    /\ iters' = r.iters
    /\ stuck' = r.stuck
    /\ sink' = sink \o [ i \in 1..(Len(r.tasks) - Len(tasks)) |-> NewTask ]

\* the state before any byte was received
\* receive_image.py, receive_and_save_jpeg before its loop (lines 36-41):
\* no MAC and no hash (None is the empty sequence), an empty image buffer
\* and state WAITING_MAC.  input is the input buffer of the serial port,
\* idle the seconds since last_data_time (11 stands for any time above
\* 10), at the place in the loop, chunk_len the length read for the chunk
\* awaited, saved the files written; sent and last are history: the number
\* of pieces the device sent and what the last step did.
NewReceiver ==
    [ state |-> "WAITING_MAC", received_mac_address |-> << >>,
      received_hash_from_esp |-> << >>, image_buffer |-> << >>,
      input |-> << >>, idle |-> 0, at |-> "top", chunk_len |-> 0,
      saved |-> << >>, sent |-> 0, last |-> "open" ]

Fresh ==
    /\ pos = 0
    /\ buffer = NewBuffer
    /\ frame_start_time = None
    /\ image_buffers = << >>
    /\ last_receive_time = << >>
    /\ tasks = << >>
    /\ now = 1
    /\ next_sweep = 1 + IMAGE_TIMEOUT
    /\ wake = 0
    /\ gaps = {}
    /\ last_rx = 1
    /\ log = << >>
    /\ iters = << >>
    /\ stuck = FALSE
    /\ future = "pending"
    /\ cancelled = [ how |-> "no", at |-> "" ]
    /\ sweeper = "sleeping"
    /\ sink = << >>
    /\ stats = [ received_images |-> 0, total_bytes |-> 0 ]
    /\ files = << >>
    /\ receiver = NewReceiver

\* the transport calls data_received with the next n bytes of the stream
DataReceived(n) ==
    /\ pc = "monitor"
    /\ n >= 1
    /\ pos + n <= Len(stream)
    /\ Install(DataReceivedOn(Codec, SubSeq(stream, pos + 1, pos + n), now))
    /\ pos' = pos + n
    /\ gaps' = IF now - last_rx > FRAME_TIMEOUT THEN gaps \cup {pos} ELSE gaps
    /\ last_rx' = now
    /\ UNCHANGED << stream, now, next_sweep, pc, wake, opens, transport,
                    future, cancelled, sweeper, stats, files, receiver >>

\* the sizes a read may have: up to MaxChunk bytes, or all that is left
ChunkSizes == (1..MaxChunk) \cup { Len(stream) - pos }

(* The parser alone: one connection, one stream, no time passing. *)
Init ==
    /\ stream \in Streams
    /\ Fresh
    /\ pc = "monitor"
    /\ opens = 1
    /\ transport = "open"

Next == \E n \in ChunkSizes : DataReceived(n)

Spec == Init /\ [][Next]_vars

----------------------------------------------------------------------------
(* Whole frames, one per read, from two senders: the reassembly maps. *)

FrameSet == { DataA1, DataA2, DataA0, DataB1, EofA, EofB, HashA, UnknownA }

\* number of frames sent
MaxFrames == 4

\* the device sends one more frame and the transport delivers it in one read
SendFrame(f) ==
    /\ pc = "monitor"
    /\ Len(log) < MaxFrames
    /\ f \in FrameSet
    /\ Install(DataReceivedOn(Codec, f, now))
    /\ stream' = stream \o f
    /\ pos' = pos + Len(f)
    /\ last_rx' = now
    /\ UNCHANGED << now, next_sweep, pc, wake, opens, gaps, transport,
                    future, cancelled, sweeper, stats, files, receiver >>

InitFrames ==
    /\ stream = << >>
    /\ Fresh
    /\ pc = "monitor"
    /\ opens = 1
    /\ transport = "open"

NextFrames == \E f \in FrameSet : SendFrame(f)

SpecFrames == InitFrames /\ [][NextFrames]_vars

----------------------------------------------------------------------------
(* check_timeouts and main: time, the sweeper and the reconnection loop. *)

\* the clock stops here
MaxTime == 44

\* the longest time the clock advances in one step
TimeStep == 5

\* number of protocol instances main creates
MaxOpens == 2

\* number of frames the device sends
MaxSysFrames == 3

\* the frames the device sends
SysFrames == { DataA1, DataB1, EofA }

SetToSeq(S) ==
    CHOOSE q \in [ 1..Cardinality(S) -> S ] : { q[i] : i \in 1..Len(q) } = S

\* Sweep dropping also the senders whose last DATA is exactly IMAGE_TIMEOUT old
SweepInclusive ==
    /\ sweeper = "sleeping"
    /\ now = next_sweep
    /\ LET timed_out_macs ==
               { mac \in DOMAIN last_receive_time :
                   now - last_receive_time[mac] >= IMAGE_TIMEOUT }
           order == SetToSeq(timed_out_macs)
       IN  /\ image_buffers' =
                 [ m \in DOMAIN image_buffers \ timed_out_macs |->
                     image_buffers[m] ]
           /\ last_receive_time' =
                 [ m \in DOMAIN last_receive_time \ timed_out_macs |->
                     last_receive_time[m] ]
           /\ log' = log \o
                 [ i \in 1..Len(order) |->
                     Warning("evict", order[i],
                             IF order[i] \in DOMAIN image_buffers
                             THEN Len(image_buffers[order[i]]) ELSE 0, now) ]
    /\ next_sweep' = now + IMAGE_TIMEOUT
    /\ UNCHANGED << stream, pos, buffer, frame_start_time, tasks, now, pc,
                    wake, opens, gaps, last_rx, iters, stuck, transport,
                    future, cancelled, sweeper, sink, stats, files,
                    receiver >>

\* one pass of check_timeouts after its sleep: drop every sender whose last
\* DATA is more than IMAGE_TIMEOUT old, then sleep again
Sweep ==
    /\ sweeper = "sleeping"
    /\ now = next_sweep
    /\ LET current_time == now
           timed_out_macs ==
               { mac \in DOMAIN last_receive_time :
                   current_time - last_receive_time[mac] > IMAGE_TIMEOUT }
           order == SetToSeq(timed_out_macs)
       IN  /\ image_buffers' =
                 [ m \in DOMAIN image_buffers \ timed_out_macs |->
                     image_buffers[m] ]
           /\ last_receive_time' =
                 [ m \in DOMAIN last_receive_time \ timed_out_macs |->
                     last_receive_time[m] ]
           /\ log' = log \o
                 [ i \in 1..Len(order) |->
                     Warning("evict", order[i],
                             IF order[i] \in DOMAIN image_buffers
                             THEN Len(image_buffers[order[i]]) ELSE 0,
                             current_time) ]
    /\ next_sweep' = now + IMAGE_TIMEOUT
    /\ UNCHANGED << stream, pos, buffer, frame_start_time, tasks, now, pc,
                    wake, opens, gaps, last_rx, iters, stuck, transport,
                    future, cancelled, sweeper, sink, stats, files,
                    receiver >>

\* create_serial_connection succeeds: the factory makes a new SerialProtocol
\* and main awaits connection_lost_future
OpenOk ==
    /\ pc = "connect"
    /\ opens < MaxOpens
    /\ buffer' = NewBuffer
    /\ frame_start_time' = None
    /\ pc' = "monitor"
    /\ opens' = opens + 1
    /\ transport' = "open"
    /\ UNCHANGED << stream, pos, image_buffers, last_receive_time, tasks, now,
                    next_sweep, wake, gaps, last_rx, log, iters, stuck,
                    future, cancelled, sweeper, sink, stats, files,
                    receiver >>

\* the exceptions an open or a lost connection may carry: a
\* serial.SerialException or any other Exception
Exceptions == { "serial", "other" }

\* OpenFail taking the error as a reason to leave the reconnection loop
OpenFailGiveUp(exc) ==
    /\ pc = "connect"
    /\ exc \in Exceptions
    /\ future' = "exception"
    /\ pc' = "cleanup"
    /\ sweeper' = "cancelling"
    /\ UNCHANGED << stream, pos, buffer, frame_start_time, image_buffers,
                    last_receive_time, tasks, now, next_sweep, opens, gaps,
                    last_rx, log, iters, stuck, transport, cancelled, wake,
                    sink, stats, files, receiver >>

\* create_serial_connection raises exc: the handler of SerialException or
\* the one of Exception sets the future's exception, and main goes to its
\* retry sleep
OpenFail(exc) ==
    /\ pc = "connect"
    /\ exc \in Exceptions
    /\ future' = "exception"
    /\ pc' = "sleep"
    /\ wake' = now + RETRY_DELAY
    /\ UNCHANGED << stream, pos, buffer, frame_start_time, image_buffers,
                    last_receive_time, tasks, now, next_sweep, opens, gaps,
                    last_rx, log, iters, stuck, transport, cancelled,
                    sweeper, sink, stats, files, receiver >>

\* the transport closes and calls connection_lost(exc), exc being None for
\* a clean close; connection_lost sets the future's result or exception,
\* main's await returns or raises, the finally block finds the transport
\* closing, and main goes to its retry sleep
ConnectionLost(exc) ==
    /\ pc = "monitor"
    /\ exc \in Exceptions \cup { "none" }
    /\ transport' = "closed"
    /\ future' = IF exc = "none" THEN "result" ELSE "exception"
    /\ pc' = "sleep"
    /\ wake' = now + RETRY_DELAY
    /\ UNCHANGED << stream, pos, buffer, frame_start_time, image_buffers,
                    last_receive_time, tasks, now, next_sweep, opens, gaps,
                    last_rx, log, iters, stuck, cancelled, sweeper, sink,
                    stats, files, receiver >>

\* Retry not waiting for the end of the sleep
RetryEarly ==
    /\ pc = "sleep"
    /\ now <= wake
    /\ pc' = "connect"
    /\ wake' = 0
    /\ future' = "pending"
    /\ UNCHANGED << stream, pos, buffer, frame_start_time, image_buffers,
                    last_receive_time, tasks, now, next_sweep, opens,
                    gaps, last_rx, log, iters, stuck, transport, cancelled,
                    sweeper, sink, stats, files, receiver >>

\* asyncio.sleep(5) returns: the next iteration of the reconnection loop
Retry ==
    /\ pc = "sleep"
    /\ now = wake
    /\ pc' = "connect"
    /\ wake' = 0
    /\ future' = "pending"
    /\ UNCHANGED << stream, pos, buffer, frame_start_time, image_buffers,
                    last_receive_time, tasks, now, next_sweep, opens,
                    gaps, last_rx, log, iters, stuck, transport, cancelled,
                    sweeper, sink, stats, files, receiver >>

\* the earlier of two times
Min(a, b) == IF a <= b THEN a ELSE b

\* time passes, up to the next timer that is due
Advance ==
    /\ now < MaxTime
    /\ sweeper = "sleeping" => now < next_sweep
    /\ pc = "sleep" => now < wake
    /\ now' = Min(Min(now + TimeStep,
                      IF sweeper = "sleeping" THEN next_sweep ELSE MaxTime),
                  IF pc = "sleep" THEN wake ELSE MaxTime)
    /\ UNCHANGED << stream, pos, buffer, frame_start_time, image_buffers,
                    last_receive_time, tasks, next_sweep, pc, wake, opens,
                    gaps, last_rx, log, iters, stuck, transport, future,
                    cancelled, sweeper, sink, stats, files, receiver >>

\* the device sends one more frame while the port is open
SendSysFrame(f) ==
    /\ pc = "monitor"
    /\ f \in SysFrames
    /\ Cardinality({ i \in 1..Len(log) : log[i].ev = "frame" }) < MaxSysFrames
    /\ Install(DataReceivedOn(Codec, f, now))
    /\ stream' = stream \o f
    /\ pos' = pos + Len(f)
    /\ last_rx' = now
    /\ UNCHANGED << now, next_sweep, pc, wake, opens, gaps, transport,
                    future, cancelled, sweeper, stats, files, receiver >>

InitSys ==
    /\ stream = << >>
    /\ Fresh
    /\ pc = "connect"
    /\ opens = 0
    /\ transport = "closed"

NextSys ==
    \/ \E f \in SysFrames : SendSysFrame(f)
    \/ Sweep
    \/ OpenOk
    \/ \E exc \in Exceptions : OpenFail(exc)
    \/ \E exc \in Exceptions \cup { "none" } : ConnectionLost(exc)
    \/ Retry
    \/ Advance

SpecSys == InitSys /\ [][NextSys]_vars

----------------------------------------------------------------------------
(* The parser and the clock: reads of any size with silence between them. *)

\* the clock stops here
MaxTick == 5

TimerStreams == { HeaderOnlyA \o DataB1, DataA1 \o DataB1 }

\* a second passes
Tick ==
    /\ now < MaxTick
    /\ now' = now + 1
    /\ UNCHANGED << stream, pos, buffer, frame_start_time, image_buffers,
                    last_receive_time, tasks, next_sweep, pc, wake, opens,
                    gaps, last_rx, log, iters, stuck, transport, future,
                    cancelled, sweeper, sink, stats, files, receiver >>

InitTimer ==
    /\ stream \in TimerStreams
    /\ Fresh
    /\ pc = "monitor"
    /\ opens = 1
    /\ transport = "open"

NextTimer ==
    \/ \E n \in ChunkSizes : DataReceived(n)
    \/ Tick

SpecTimer == InitTimer /\ [][NextTimer]_vars

----------------------------------------------------------------------------
(* save_image and write_file_sync: the tasks the EOF frames create.  sink[i] *)
(* belongs to tasks[i]: st is the state of the save_image task, io the state *)
(* of write_file_sync in the executor thread.                                *)

SetTask(i, st, io) == [ sink EXCEPT ![i].st = st, ![i].io = io ]

Digits == << "0", "1", "2", "3", "4", "5", "6", "7", "8", "9" >>

RECURSIVE Dec(_, _)
\* the decimal digits of n zero-padded to width w, as %m, %d, %H, %M, %S and
\* %f of strftime give them, and %Y for the years 1000..9999
Dec(n, w) ==
    IF w = 0 THEN << >>
    ELSE Dec(n \div 10, w - 1) \o << Digits[(n % 10) + 1] >>

RECURSIVE DecShort(_)
\* the decimal digits of n without padding
DecShort(n) ==
    IF n < 10 THEN << Digits[n + 1] >>
    ELSE DecShort(n \div 10) \o << Digits[(n % 10) + 1] >>

\* StrfTime with the microseconds not padded to six digits
StrfTimeUnpadded(t) ==
    Dec(t.year, 4) \o Dec(t.month, 2) \o Dec(t.day, 2) \o << "_" >>
        \o Dec(t.hour, 2) \o Dec(t.minute, 2) \o Dec(t.second, 2) \o << "_" >>
        \o DecShort(t.microsecond)

\* t.strftime("%Y%m%d_%H%M%S_%f")
StrfTime(t) ==
    Dec(t.year, 4) \o Dec(t.month, 2) \o Dec(t.day, 2) \o << "_" >>
        \o Dec(t.hour, 2) \o Dec(t.minute, 2) \o Dec(t.second, 2) \o << "_" >>
        \o Dec(t.microsecond, 6)

IsNotColon(ch) == ch # ":"

\* the name of the file in IMAGE_DIR:
\* f"{sender_mac_str.replace(':', '')}_{timestamp}.jpg"
FileName(sender_mac_str, t) ==
    SelectSeq(sender_mac_str, IsNotColon) \o << "_" >> \o StrfTime(t)
        \o << ".", "j", "p", "g" >>

\* a value of datetime.now()
DateTime(y, mo, d, h, mi, sec, us) ==
    [ year |-> y, month |-> mo, day |-> d, hour |-> h, minute |-> mi,
      second |-> sec, microsecond |-> us ]

\* the wall clock when no claim depends on it
SinkClocks == { DateTime(2025, 4, 14, 11, 55, 21, 331015) }

\* the first step of save_image: it builds the file name from the sender and
\* the wall clock t and awaits
\* run_in_executor(None, write_file_sync, filename, image_data)
StartWrite(i, t) ==
    /\ i \in DOMAIN sink
    /\ sink[i].st = "created"
    /\ sink' = [ sink EXCEPT ![i] = [ st |-> "awaiting", io |-> "running",
                                      name |-> FileName(tasks[i].mac, t),
                                      time |-> t, line |-> << >> ] ]
    /\ UNCHANGED << stream, pos, buffer, frame_start_time, image_buffers,
                    last_receive_time, tasks, now, next_sweep, pc, wake,
                    opens, gaps, last_rx, log, iters, stuck, transport,
                    future, cancelled, sweeper, stats, files, receiver >>

\* write_file_sync returns: the file holds the blob.  frames is history: the
\* number of frames and warnings logged when the write finished.
ThreadOk(i) ==
    /\ i \in DOMAIN sink
    /\ sink[i].io = "running"
    /\ sink' = SetTask(i, sink[i].st, "ok")
    /\ files' = Append(files, [ task |-> i, name |-> sink[i].name,
                                mac |-> tasks[i].mac, data |-> tasks[i].data,
                                frames |-> Len(log) ])
    /\ UNCHANGED << stream, pos, buffer, frame_start_time, image_buffers,
                    last_receive_time, tasks, now, next_sweep, pc, wake,
                    opens, gaps, last_rx, log, iters, stuck, transport,
                    future, cancelled, sweeper, stats, receiver >>

\* open or write raises in write_file_sync
ThreadFail(i) ==
    /\ i \in DOMAIN sink
    /\ sink[i].io = "running"
    /\ sink' = SetTask(i, sink[i].st, "error")
    /\ UNCHANGED << stream, pos, buffer, frame_start_time, image_buffers,
                    last_receive_time, tasks, now, next_sweep, pc, wake,
                    opens, gaps, last_rx, log, iters, stuck, transport,
                    future, cancelled, sweeper, stats, files, receiver >>

\* Resume counting the image also when the write raised
ResumeCounted(i) ==
    /\ i \in DOMAIN sink
    /\ sink[i].st = "awaiting"
    /\ sink[i].io \in { "ok", "error" }
    /\ sink' = SetTask(i, IF sink[i].io = "ok" THEN "saved" ELSE "failed",
                       sink[i].io)
    /\ stats' = [ received_images |-> stats.received_images + 1,
                  total_bytes |-> stats.total_bytes + Len(tasks[i].data) ]
    /\ UNCHANGED << stream, pos, buffer, frame_start_time, image_buffers,
                    last_receive_time, tasks, now, next_sweep, pc, wake,
                    opens, gaps, last_rx, log, iters, stuck, transport,
                    future, cancelled, sweeper, files, receiver >>

\* StatsLine deciding on received_images as it was before the image was
\* counted
StatsLineEarly(st) ==
    IF st.received_images - 1 > 0 /\ (st.received_images - 1) % 10 = 0
    THEN << [ count |-> st.received_images, total |-> st.total_bytes ] >>
    ELSE << >>

\* the "Stats:" line of save_image for the counters st: it is logged when
\* received_images > 0 and received_images % 10 == 0, and is formatted from
\* received_images and from total_bytes / received_images
StatsLine(st) ==
    IF st.received_images > 0 /\ st.received_images % 10 = 0
    THEN << [ count |-> st.received_images, total |-> st.total_bytes ] >>
    ELSE << >>

\* the counters after an image of n bytes is counted
Counted(st, n) ==
    [ received_images |-> st.received_images + 1,
      total_bytes |-> st.total_bytes + n ]

\* save_image resumes after its await: it updates stats when the write
\* returned, then logs the statistics line when it is due, and logs the
\* error when the write raised.  line is history: the statistics line this
\* task logged.
Resume(i) ==
    /\ i \in DOMAIN sink
    /\ sink[i].st = "awaiting"
    /\ sink[i].io \in { "ok", "error" }
    /\ sink' = [ sink EXCEPT
                   ![i].st = IF sink[i].io = "ok" THEN "saved" ELSE "failed",
                   ![i].line = IF sink[i].io = "ok"
                               THEN StatsLine(Counted(stats,
                                                      Len(tasks[i].data)))
                               ELSE << >> ]
    /\ stats' = IF sink[i].io = "ok"
                THEN [ received_images |-> stats.received_images + 1,
                       total_bytes |-> stats.total_bytes + Len(tasks[i].data) ]
                ELSE stats
    /\ UNCHANGED << stream, pos, buffer, frame_start_time, image_buffers,
                    last_receive_time, tasks, now, next_sweep, pc, wake,
                    opens, gaps, last_rx, log, iters, stuck, transport,
                    future, cancelled, sweeper, files, receiver >>

----------------------------------------------------------------------------
(* Cancellation of main and the end of asyncio.run. *)

\* task.cancel() on every save_image task that has not finished
CancelTasks(sk) ==
    [ i \in DOMAIN sk |->
        IF sk[i].st \in { "created", "awaiting" }
        THEN [ sk[i] EXCEPT !.st = "cancelled" ]
        ELSE sk[i] ]

\* Cancel without the transport.close() of the finally block
CancelLeaveOpen(all) ==
    /\ pc \in { "connect", "monitor", "sleep" }
    /\ cancelled.how = "no"
    /\ cancelled' = [ how |-> IF all THEN "all" ELSE "task", at |-> pc ]
    /\ future' = IF pc # "sleep" /\ future = "pending"
                 THEN "cancelled" ELSE future
    /\ pc' = "cleanup"
    /\ wake' = 0
    /\ sweeper' = "cancelling"
    /\ sink' = IF all THEN CancelTasks(sink) ELSE sink
    /\ UNCHANGED << stream, pos, buffer, frame_start_time, image_buffers,
                    last_receive_time, tasks, now, next_sweep, opens, gaps,
                    last_rx, log, iters, stuck, stats, files, transport,
                    receiver >>

\* main gets CancelledError at its await: while it opens or monitors the
\* connection the handler cancels the future and breaks, and the finally block
\* closes the transport; in the retry sleep the handler breaks.  After the
\* loop main calls timeout_task.cancel() and awaits the task.  The
\* cancellation is that of the main task alone, or (all) the cancellation of
\* every task by asyncio.run after a KeyboardInterrupt.
Cancel(all) ==
    /\ pc \in { "connect", "monitor", "sleep" }
    /\ cancelled.how = "no"
    /\ cancelled' = [ how |-> IF all THEN "all" ELSE "task", at |-> pc ]
    /\ future' = IF pc # "sleep" /\ future = "pending"
                 THEN "cancelled" ELSE future
    /\ transport' = "closed"
    /\ pc' = "cleanup"
    /\ wake' = 0
    /\ sweeper' = "cancelling"
    /\ sink' = IF all THEN CancelTasks(sink) ELSE sink
    /\ UNCHANGED << stream, pos, buffer, frame_start_time, image_buffers,
                    last_receive_time, tasks, now, next_sweep, opens, gaps,
                    last_rx, log, iters, stuck, stats, files, receiver >>

\* check_timeouts gets CancelledError in its sleep, logs and breaks.  The
\* event loop runs its callbacks in the order they were scheduled, so every
\* save_image task created before has made its first step by then.
SweeperCancelled ==
    /\ sweeper = "cancelling"
    /\ \A i \in DOMAIN sink : sink[i].st # "created"
    /\ sweeper' = "done"
    /\ next_sweep' = 0
    /\ UNCHANGED << stream, pos, buffer, frame_start_time, image_buffers,
                    last_receive_time, tasks, now, pc, wake, opens, gaps,
                    last_rx, log, iters, stuck, transport, future, cancelled,
                    sink, stats, files, receiver >>

\* await timeout_task returns and main returns
MainReturn ==
    /\ pc = "cleanup"
    /\ sweeper = "done"
    /\ pc' = "done"
    /\ UNCHANGED << stream, pos, buffer, frame_start_time, image_buffers,
                    last_receive_time, tasks, now, next_sweep, wake, opens,
                    gaps, last_rx, log, iters, stuck, transport, future,
                    cancelled, sweeper, sink, stats, files, receiver >>

\* asyncio.run ends: it cancels the tasks that are left, waits for the
\* threads of the default executor and closes the loop
RunExit ==
    /\ pc = "done"
    /\ \A i \in DOMAIN sink : sink[i].io # "running"
    /\ pc' = "exited"
    /\ sink' = CancelTasks(sink)
    /\ UNCHANGED << stream, pos, buffer, frame_start_time, image_buffers,
                    last_receive_time, tasks, now, next_sweep, wake, opens,
                    gaps, last_rx, log, iters, stuck, transport, future,
                    cancelled, sweeper, stats, files, receiver >>

----------------------------------------------------------------------------
(* main with its clock, the sweeper, the sink and cancellation. *)

\* number of frames the device sends
MaxMainFrames == 2

\* the frames the device sends
MainFrames == { DataA1, EofA }

\* the device sends one more frame while the port is open
SendMainFrame(f) ==
    /\ pc = "monitor"
    /\ f \in MainFrames
    /\ Cardinality({ i \in 1..Len(log) : log[i].ev = "frame" }) < MaxMainFrames
    /\ Install(DataReceivedOn(Codec, f, now))
    /\ stream' = stream \o f
    /\ pos' = pos + Len(f)
    /\ last_rx' = now
    /\ UNCHANGED << now, next_sweep, pc, wake, opens, gaps, transport,
                    future, cancelled, sweeper, stats, files, receiver >>

\* the clock of main stops here
MaxMainTime == 26

\* the timers that are pending: the sleep of check_timeouts and the retry
\* sleep of main
Timers ==
    (IF sweeper = "sleeping" THEN { next_sweep } ELSE {})
        \cup (IF pc = "sleep" THEN { wake } ELSE {})

\* time passes until the next timer is due
AdvanceMain ==
    /\ Timers # {}
    /\ \A t \in Timers : now < t
    /\ \E t \in Timers : t <= MaxMainTime
    /\ now' = CHOOSE t \in Timers : \A u \in Timers : t <= u
    /\ UNCHANGED << stream, pos, buffer, frame_start_time, image_buffers,
                    last_receive_time, tasks, next_sweep, pc, wake, opens,
                    gaps, last_rx, log, iters, stuck, transport, future,
                    cancelled, sweeper, sink, stats, files, receiver >>

InitMain ==
    /\ stream = << >>
    /\ Fresh
    /\ pc = "connect"
    /\ opens = 0
    /\ transport = "closed"

SinkStep ==
    \E i \in DOMAIN sink :
        \/ \E t \in SinkClocks : StartWrite(i, t)
        \/ ThreadOk(i)
        \/ ThreadFail(i)
        \/ Resume(i)

NextMain ==
    \/ \E f \in MainFrames : SendMainFrame(f)
    \/ Sweep
    \/ OpenOk
    \/ \E exc \in Exceptions : OpenFail(exc)
    \/ \E exc \in Exceptions \cup { "none" } : ConnectionLost(exc)
    \/ Retry
    \/ AdvanceMain
    \/ \E all \in BOOLEAN : Cancel(all)
    \/ SweeperCancelled
    \/ MainReturn
    \/ RunExit
    \/ SinkStep

SpecMain == InitMain /\ [][NextMain]_vars

\* The event loop runs every callback that is ready, timers fire when they
\* are due, the executor threads run, and the monotonic clock advances.
SpecMainFair ==
    /\ SpecMain
    /\ WF_vars(AdvanceMain)
    /\ WF_vars(Sweep)
    /\ WF_vars(Retry)
    /\ WF_vars(SweeperCancelled)
    /\ WF_vars(MainReturn)
    /\ WF_vars(RunExit)
    /\ WF_vars(SinkStep)

----------------------------------------------------------------------------
(* The sink alone: frames while the port is open, the writes, and the end. *)

\* number of frames the device sends
MaxSinkFrames == 4

\* the frames the device sends
SinkFrames == { DataA1, DataA2, EofA, DataB1, EofB }

SendSinkFrame(f) ==
    /\ pc = "monitor"
    /\ f \in SinkFrames
    /\ Len(log) < MaxSinkFrames
    /\ Install(DataReceivedOn(Codec, f, now))
    /\ stream' = stream \o f
    /\ pos' = pos + Len(f)
    /\ last_rx' = now
    /\ UNCHANGED << now, next_sweep, pc, wake, opens, gaps, transport,
                    future, cancelled, sweeper, stats, files, receiver >>

InitSink ==
    /\ stream = << >>
    /\ Fresh
    /\ pc = "monitor"
    /\ opens = 1
    /\ transport = "open"

NextSink ==
    \/ \E f \in SinkFrames : SendSinkFrame(f)
    \/ \E i \in DOMAIN sink : \E t \in SinkClocks : StartWrite(i, t)
    \/ \E i \in DOMAIN sink : ThreadOk(i)
    \/ \E i \in DOMAIN sink : ThreadFail(i)
    \/ \E i \in DOMAIN sink : Resume(i)
    \/ \E all \in BOOLEAN : Cancel(all)
    \/ SweeperCancelled
    \/ MainReturn
    \/ RunExit

SpecSink == InitSink /\ [][NextSink]_vars

----------------------------------------------------------------------------
(* The image viewer (examples/image_viewer/main.py): parse_filename. *)

LowerCase ==
    [ ch \in { "A", "B", "C", "D", "E", "F", "G", "J", "P" } |->
        CASE ch = "A" -> "a" [] ch = "B" -> "b" [] ch = "C" -> "c"
          [] ch = "D" -> "d" [] ch = "E" -> "e" [] ch = "F" -> "f"
          [] ch = "G" -> "g" [] ch = "J" -> "j" [] ch = "P" -> "p" ]

\* s.lower(), for the characters of file names
Lower(str) ==
    [ i \in 1..Len(str) |->
        IF str[i] \in DOMAIN LowerCase THEN LowerCase[str[i]] ELSE str[i] ]

\* s.removesuffix(suffix)
RemoveSuffix(str, suffix) ==
    IF Len(str) >= Len(suffix) /\ Last(str, Len(suffix)) = suffix
    THEN SubSeq(str, 1, Len(str) - Len(suffix))
    ELSE str

RECURSIVE Split(_, _)
\* s.split(sep) for a separator of one character
Split(str, sep) ==
    LET hits == { i \in 1..Len(str) : str[i] = sep }
        first == CHOOSE i \in hits : \A j \in hits : i <= j
    IN  IF hits = {} THEN << str >>
        ELSE << SubSeq(str, 1, first - 1) >>
                 \o Split(SubSeq(str, first + 1, Len(str)), sep)

RECURSIVE Join(_, _)
\* sep.join(parts)
Join(sep, parts) ==
    IF Len(parts) = 0 THEN << >>
    ELSE IF Len(parts) = 1 THEN parts[1]
    ELSE parts[1] \o << sep >> \o Join(sep, Tail(parts))

IsDigits(str) == \A i \in 1..Len(str) : \E d \in 1..10 : Digits[d] = str[i]

DigitValue(ch) == (CHOOSE d \in 1..10 : Digits[d] = ch) - 1

RECURSIVE ToInt(_)
\* int(s) for a string of digits
ToInt(str) ==
    IF Len(str) = 0 THEN 0
    ELSE ToInt(SubSeq(str, 1, Len(str) - 1)) * 10 + DigitValue(str[Len(str)])

IsLeap(y) == (y % 4 = 0 /\ y % 100 # 0) \/ y % 400 = 0

DaysInMonth(y, mo) ==
    IF mo = 2 THEN (IF IsLeap(y) THEN 29 ELSE 28)
    ELSE IF mo \in { 4, 6, 9, 11 } THEN 30 ELSE 31

\* datetime.strptime(s, "%Y%m%d_%H%M%S_%f") for the strings whose fields have
\* the full width of the directives (four, two, two, two, two and two digits)
\* and one to six digits of %f, which strptime pads with zeros on the right.
\* The result is << dt >>, or << >> for the ValueError.  strptime also takes
\* some shorter fields, which strftime never writes; they are taken as errors
\* here.
StrpTime(str) ==
    LET parts == Split(str, "_")
        date == parts[1]
        clock == parts[2]
        frac == parts[3]
        y == ToInt(SubSeq(date, 1, 4))
        mo == ToInt(SubSeq(date, 5, 6))
        d == ToInt(SubSeq(date, 7, 8))
        h == ToInt(SubSeq(clock, 1, 2))
        mi == ToInt(SubSeq(clock, 3, 4))
        sec == ToInt(SubSeq(clock, 5, 6))
        us == ToInt(frac \o [ i \in 1..(6 - Len(frac)) |-> "0" ])
    IN  IF /\ Len(parts) = 3
           /\ Len(date) = 8 /\ IsDigits(date)
           /\ Len(clock) = 6 /\ IsDigits(clock)
           /\ Len(frac) \in 1..6 /\ IsDigits(frac)
           /\ y >= 1
           /\ mo \in 1..12
           /\ d >= 1 /\ d <= DaysInMonth(y, mo)
           /\ h <= 23 /\ mi <= 59 /\ sec <= 59
        THEN << DateTime(y, mo, d, h, mi, sec, us) >>
        ELSE << >>

IsHexDigit(ch) == \E d \in 1..16 : HexDigits[d] = ch

\* parse_filename: the tuple (mac_addr, dt_obj), or << >> for None
parse_filename(filename) ==
    LET base_name == RemoveSuffix(Lower(filename), << ".", "j", "p", "g" >>)
        parts == Split(base_name, "_")
        mac_part == parts[1]
        mac_addr == JoinColon([ i \in 1..6 |->
                                  SubSeq(mac_part, 2 * i - 1, 2 * i) ])
        timestamp_str == Join("_", SubSeq(parts, 2, Len(parts)))
        dt_obj == StrpTime(timestamp_str)
    IN  IF Len(parts) = 4
        THEN IF Len(mac_part) = 12
                  /\ \A i \in 1..Len(mac_part) : IsHexDigit(mac_part[i])
             THEN IF dt_obj = << >> THEN << >> ELSE << mac_addr, dt_obj[1] >>
             ELSE << >>
        ELSE << >>

----------------------------------------------------------------------------
(* The names of the files: three senders and wall clocks of every shape. *)

MacC == << 9, 154, 240, 6, 120, 89 >>

DataC1 == Frame(MacC, FRAME_TYPE_DATA, 1, << 8 >>)
EofC == Frame(MacC, FRAME_TYPE_EOF, 2, << >>)

\* the frames the device sends
NameFrames == { DataA1, EofA, DataB1, EofB, DataC1, EofC }

\* number of frames the device sends
MaxNameFrames == 3

\* values of datetime.now()
WallClocks ==
    { DateTime(2025, 4, 14, 11, 55, 21, 331015),
      DateTime(2024, 2, 29, 0, 0, 0, 0),
      DateTime(1999, 12, 31, 23, 59, 59, 999999),
      DateTime(2026, 1, 1, 9, 5, 7, 42),
      DateTime(2030, 10, 20, 10, 10, 10, 100000) }

SendNameFrame(f) ==
    /\ pc = "monitor"
    /\ f \in NameFrames
    /\ Len(log) < MaxNameFrames
    /\ Install(DataReceivedOn(Codec, f, now))
    /\ stream' = stream \o f
    /\ pos' = pos + Len(f)
    /\ last_rx' = now
    /\ UNCHANGED << now, next_sweep, pc, wake, opens, gaps, transport,
                    future, cancelled, sweeper, stats, files, receiver >>

InitNames ==
    /\ stream = << >>
    /\ Fresh
    /\ pc = "monitor"
    /\ opens = 1
    /\ transport = "open"

NextNames ==
    \/ \E f \in NameFrames : SendNameFrame(f)
    \/ \E i \in DOMAIN sink : \E t \in WallClocks : StartWrite(i, t)
    \/ \E i \in DOMAIN sink : ThreadOk(i)
    \/ \E i \in DOMAIN sink : ThreadFail(i)
    \/ \E i \in DOMAIN sink : Resume(i)

SpecNames == InitNames /\ [][NextNames]_vars

----------------------------------------------------------------------------
(* Well-formed frames only, read in pieces of any size: the round trip. *)

\* the four big-endian bytes of an unsigned 32-bit value
Bytes4(v) == << v.hi \div 256, v.hi % 256, v.lo \div 256, v.lo % 256 >>

\* the wire encoding of the frame fr
Encode(fr) ==
    Wire(fr.mac, fr.kind, Bytes4(fr.seq), U32(Len(fr.payload)), fr.payload,
         fr.sum, END_MARKER)

RECURSIVE EncodeAll(_)
EncodeAll(fs) ==
    IF Len(fs) = 0 THEN << >> ELSE Encode(fs[1]) \o EncodeAll(Tail(fs))

\* a MAC address whose first bytes are those of a start marker
MacMarker == START_MARKER \o << 205, 239 >>

\* a payload of the largest length the parser accepts
LongPayload == [ i \in 1..max_reasonable_data_len |-> (i * 7) % 256 ]

RoundTripFrames ==
    { [ kind |-> FRAME_TYPE_DATA, mac |-> MacA, seq |-> [ hi |-> 0, lo |-> 1 ],
        payload |-> << 1, 2 >>, sum |-> NoChecksum ],
      [ kind |-> FRAME_TYPE_DATA, mac |-> MacB,
        seq |-> [ hi |-> 65535, lo |-> 65535 ],
        payload |-> START_MARKER, sum |-> END_MARKER ],
      [ kind |-> FRAME_TYPE_HASH, mac |-> MacA,
        seq |-> [ hi |-> 32768, lo |-> 0 ],
        payload |-> END_MARKER, sum |-> START_MARKER ],
      [ kind |-> FRAME_TYPE_EOF, mac |-> MacB, seq |-> [ hi |-> 0, lo |-> 0 ],
        payload |-> << >>, sum |-> NoChecksum ],
      [ kind |-> FRAME_TYPE_DATA, mac |-> MacMarker,
        seq |-> [ hi |-> 1, lo |-> 515 ],
        payload |-> END_MARKER \o START_MARKER \o << 250, 206 >>,
        sum |-> NoChecksum ],
      [ kind |-> FRAME_TYPE_DATA, mac |-> MacA, seq |-> [ hi |-> 0, lo |-> 2 ],
        payload |-> LongPayload, sum |-> NoChecksum ] }

\* number of frames in a round trip
MaxRoundTrip == 2

RoundTripLists ==
    UNION { [ 1..k -> RoundTripFrames ] : k \in 1..MaxRoundTrip }

InitRoundTrip ==
    /\ stream \in { EncodeAll(fs) : fs \in RoundTripLists }
    /\ Fresh
    /\ pc = "monitor"
    /\ opens = 1
    /\ transport = "open"

NextRoundTrip == \E n \in ChunkSizes : DataReceived(n)

SpecRoundTrip == InitRoundTrip /\ [][NextRoundTrip]_vars

----------------------------------------------------------------------------
(* Rejected candidates: frames with a wrong end marker of every kind, and   *)
(* rejected candidates that hold a whole well-formed frame                   *)

BadEnd == << 205, 239, 86, 0 >>

BadEndEofA == Wire(MacA, FRAME_TYPE_EOF, U32(9), U32(0), << >>, NoChecksum, BadEnd)
BadEndHashA == Wire(MacA, FRAME_TYPE_HASH, U32(0), U32(1), << 5 >>, NoChecksum, BadEnd)
BadEndUnknownA == Wire(MacA, 7, U32(0), U32(1), << 5 >>, NoChecksum, BadEnd)

\* the frame the rejected candidates below hold
Embedded == DataB1

\* a header whose length field is the start marker of the embedded frame
NestLength ==
    START_MARKER \o MacA \o << FRAME_TYPE_DATA >> \o U32(1) \o Embedded

\* a start marker followed at once by the embedded frame, whose bytes are
\* the candidate's header, payload and (wrong) end marker
NestHeader == START_MARKER \o Embedded

\* a candidate with a wrong end marker whose payload is the embedded frame
NestPayload ==
    Wire(MacA, FRAME_TYPE_DATA, U32(1), U32(Len(Embedded)), Embedded,
         NoChecksum, BadEnd)

NestPieces == { NestLength, NestHeader, NestPayload }

RejectPieces ==
    { DataA1, BadEndA, BadEndEofA, BadEndHashA, BadEndUnknownA }
        \cup NestPieces

\* number of pieces a stream of SpecReject is made of
MaxRejectPieces == 2

RejectLists == UNION { [ 1..k -> RejectPieces ] : k \in 1..MaxRejectPieces }

InitReject ==
    /\ stream \in { Concat(ps) : ps \in RejectLists }
    /\ Fresh
    /\ pc = "monitor"
    /\ opens = 1
    /\ transport = "open"

NextReject == \E n \in ChunkSizes : DataReceived(n)

SpecReject == InitReject /\ [][NextReject]_vars

----------------------------------------------------------------------------
(* The reassembly maps under everything that touches them: frames of every  *)
(* kind, rejected candidates, the sweeper and a reconnect.                   *)

\* what the device sends, one piece per read
TableFrames == { DataA1, DataA0, DataB1, EofA, HashA, UnknownA, BadEndA }

\* number of reads
MaxTableFrames == 2

\* the clock of SpecTable stops here
MaxTableTime == 41

\* the longest time the clock of SpecTable advances in one step
TableStep == 20

\* the reads so far: each logs one frame or one warning
TableReads == Cardinality({ i \in 1..Len(log) : log[i].ev # "evict" })

SendTableFrame(f) ==
    /\ pc = "monitor"
    /\ f \in TableFrames
    /\ TableReads < MaxTableFrames
    /\ Install(DataReceivedOn(Codec, f, now))
    /\ stream' = stream \o f
    /\ pos' = pos + Len(f)
    /\ last_rx' = now
    /\ UNCHANGED << now, next_sweep, pc, wake, opens, gaps, transport,
                    future, cancelled, sweeper, stats, files, receiver >>

\* time passes, up to the next timer that is due
AdvanceTable ==
    /\ now < MaxTableTime
    /\ \A t \in Timers : now < t
    /\ now' = Min(now + TableStep, CHOOSE t \in Timers : \A u \in Timers : t <= u)
    /\ UNCHANGED << stream, pos, buffer, frame_start_time, image_buffers,
                    last_receive_time, tasks, next_sweep, pc, wake, opens,
                    gaps, last_rx, log, iters, stuck, transport, future,
                    cancelled, sweeper, sink, stats, files, receiver >>

InitTable ==
    /\ stream = << >>
    /\ Fresh
    /\ pc = "monitor"
    /\ opens = 1
    /\ transport = "open"

NextTable ==
    \/ \E f \in TableFrames : SendTableFrame(f)
    \/ Sweep
    \/ AdvanceTable
    \/ \E exc \in Exceptions \cup { "none" } : ConnectionLost(exc)
    \/ Retry
    \/ OpenOk

SpecTable == InitTable /\ [][NextTable]_vars

----------------------------------------------------------------------------
(* Well-formed frames whose SEQUENCE and CHECKSUM fields take every shape,   *)
(* and frames of kinds the parser does not know, read in pieces of any size. *)

\* the sequence numbers and checksums a frame is sent with
SeqSums ==
    { << NoSeq, NoChecksum >>,
      << [ hi |-> 0, lo |-> 1 ], START_MARKER >>,
      << [ hi |-> 65535, lo |-> 65535 ], END_MARKER >> }

\* kind, sender and payload of the frames of SpecFields that the parser knows
KnownBodies ==
    { << FRAME_TYPE_DATA, MacA, << 1, 2 >> >>,
      << FRAME_TYPE_DATA, MacA, << 4 >> >>,
      << FRAME_TYPE_EOF, MacA, << >> >> }

\* frame kinds that are neither HASH, DATA nor EOF
UnknownKinds == { 0, 4, 255 }

FieldFrames ==
    { [ kind |-> b[1], mac |-> b[2], seq |-> ss[1], payload |-> b[3],
        sum |-> ss[2] ] : b \in KnownBodies, ss \in SeqSums }
    \cup
    { [ kind |-> k, mac |-> IF k = 4 THEN MacB ELSE MacA,
        seq |-> [ hi |-> 0, lo |-> k ], payload |-> << 5 >>,
        sum |-> NoChecksum ] : k \in UnknownKinds }

\* number of frames in a stream of SpecFields
MaxFieldFrames == 2

FieldLists == UNION { [ 1..k -> FieldFrames ] : k \in 1..MaxFieldFrames }

InitFields ==
    /\ stream \in { EncodeAll(fs) : fs \in FieldLists }
    /\ Fresh
    /\ pc = "monitor"
    /\ opens = 1
    /\ transport = "open"

NextFields == \E n \in ChunkSizes : DataReceived(n)

SpecFields == InitFields /\ [][NextFields]_vars

----------------------------------------------------------------------------
(* The size of the buffer: frames of the largest size among garbage,        *)
(* rejected and truncated candidates, in reads from one byte to everything. *)

\* a DATA frame with the longest payload the parser accepts
LongA == Frame(MacA, FRAME_TYPE_DATA, 2, LongPayload)

\* bytes without a start marker, longer than the keep region
LongGarbage == << 7, 187, 250, 206, 170, 0, 250, 206 >>

BoundPieces == { LongA, BadLenA, HeaderOnlyA, LongGarbage }

\* number of pieces a stream of SpecBound is made of
MaxBoundPieces == 2

BoundLists == UNION { [ 1..k -> BoundPieces ] : k \in 1..MaxBoundPieces }

\* the sizes of the reads of SpecBound: single bytes, a header, half a frame
\* of the largest size, or all that is left
BoundSizes ==
    { 1, 2, HEADER_LENGTH, max_reasonable_data_len \div 2, Len(stream) - pos }

InitBound ==
    /\ stream \in { Concat(ps) : ps \in BoundLists }
    /\ Fresh
    /\ pc = "monitor"
    /\ opens = 1
    /\ transport = "open"

NextBound == \E n \in BoundSizes : DataReceived(n)

SpecBound == InitBound /\ [][NextBound]_vars

----------------------------------------------------------------------------
(* The statistics of save_image over enough images for the statistics line: *)
(* every read carries one whole image; the first QuietImages images arrive   *)
(* one after the other is saved, and the writes of the later ones run at     *)
(* once.                                                                     *)

MaxImages == 11

MaxInFlight == 2

QuietImages == 7

MaxFailedWrites == 1

MaxOtherImages == 1

\* an image of two bytes of the first sender, and one of a single byte of
\* the second
ImageA == DataA1 \o EofA

ImageB == DataB1 \o EofB

InFlight == { i \in DOMAIN sink : sink[i].st \in { "created", "awaiting" } }

FailedWrites == { i \in DOMAIN sink : sink[i].io = "error" }

OtherImages == { i \in DOMAIN tasks : tasks[i].mac = MacStr(MacB) }

SendImage(f) ==
    /\ pc = "monitor"
    /\ Len(tasks) < MaxImages
    /\ Cardinality(InFlight) <
           (IF Len(tasks) < QuietImages THEN 1 ELSE MaxInFlight)
    /\ f = ImageB => Cardinality(OtherImages) < MaxOtherImages
    /\ Install(DataReceivedOn(Codec, f, now))
    /\ stream' = stream \o f
    /\ pos' = pos + Len(f)
    /\ last_rx' = now
    /\ UNCHANGED << now, next_sweep, pc, wake, opens, gaps, transport,
                    future, cancelled, sweeper, stats, files, receiver >>

WriteFails(i) ==
    /\ Cardinality(FailedWrites) < MaxFailedWrites
    /\ ThreadFail(i)

InitStats ==
    /\ stream = << >>
    /\ Fresh
    /\ pc = "monitor"
    /\ opens = 1
    /\ transport = "open"

NextStats ==
    \/ \E f \in { ImageA, ImageB } : SendImage(f)
    \/ \E i \in DOMAIN sink : \E t \in SinkClocks : StartWrite(i, t)
    \/ \E i \in DOMAIN sink : ThreadOk(i)
    \/ \E i \in DOMAIN sink : WriteFails(i)
    \/ \E i \in DOMAIN sink : Resume(i)

SpecStats == InitStats /\ [][NextStats]_vars

----------------------------------------------------------------------------
(* receive_image.py: the legacy receiver.  receive_and_save_jpeg reads a     *)
(* 'MAC:' line, a 'HASH:' line and then chunks, each a length (u16, little   *)
(* endian) and that many bytes, until the image buffer holds the JPEG end    *)
(* marker.  Text is the sequence of its character codes.  A read that needs  *)
(* more bytes than the port holds either waits for the device or times out;  *)
(* reads take no time unless they time out.                                  *)

JPEG_EOI == << 255, 217 >>

\* the literal 250 of the chunk length check
CHUNK_LEN_LIMIT == 250

\* the literal 10 of the tests on last_data_time
IDLE_LIMIT == 10

\* serial.Serial(..., timeout=1): the seconds an empty readline takes
SERIAL_TIMEOUT == 1

\* the literal 5 of read_exact: it gives up when the port was silent for
\* more than that many seconds
READ_EXACT_TIMEOUT == 5

\* "MAC:" and "HASH:"
MacPrefix == << 77, 65, 67, 58 >>

HashPrefix == << 72, 65, 83, 72, 58 >>

\* the characters str.strip() removes, among the codes below 128
Whitespace == { 9, 10, 11, 12, 13, 28, 29, 30, 31, 32 }

IsAscii(b) == b < 128

\* line_bytes.decode('utf-8', errors='ignore') for bytes in which no byte
\* above 127 is followed by a continuation byte (128..191): every byte above
\* 127 is an invalid sequence and is dropped
Decode(line_bytes) == SelectSeq(line_bytes, IsAscii)

RECURSIVE LStrip(_)
LStrip(s) ==
    IF s # << >> /\ s[1] \in Whitespace THEN LStrip(Tail(s)) ELSE s

RECURSIVE RStrip(_)
RStrip(s) ==
    IF s # << >> /\ s[Len(s)] \in Whitespace
    THEN RStrip(SubSeq(s, 1, Len(s) - 1))
    ELSE s

\* str.strip()
Strip(s) == RStrip(LStrip(s))

\* str.startswith(prefix)
StartsWith(s, prefix) ==
    Len(s) >= Len(prefix) /\ SubSeq(s, 1, Len(prefix)) = prefix

\* ser.readline(): the bytes up to and including the first newline, or, when
\* the read times out before a newline comes, all the bytes received
ReadLine(input) ==
    LET nl == Find(input, << 10 >>, 0)
    IN  IF nl # -1
        THEN [ line_bytes |-> SubSeq(input, 1, nl + 1),
               rest |-> SubSeq(input, nl + 2, Len(input)) ]
        ELSE [ line_bytes |-> input, rest |-> << >> ]

\* read_exact(ser, num_bytes): the bytes, or None (the empty sequence here,
\* the bytes being wrapped in a sequence of one) when the port stays silent
\* before num_bytes came; the bytes read until then are dropped
ReadExact(input, num_bytes) ==
    IF Len(input) >= num_bytes
    THEN [ data |-> << SubSeq(input, 1, num_bytes) >>,
           rest |-> SubSeq(input, num_bytes + 1, Len(input)) ]
    ELSE [ data |-> << >>, rest |-> << >> ]

\* struct.unpack('<H', len_bytes)[0]
UnpackU16(len_bytes) == len_bytes[1] + 256 * len_bytes[2]

HexDigit(n) == IF n < 10 THEN 48 + n ELSE 87 + n

RECURSIVE HexDigest(_)
\* hashlib.sha256(jpeg_data).hexdigest(), SHA-256 taken as free of
\* collisions: the digest of a byte string is a text of hexadecimal digits
\* that no other byte string has; the hexadecimal of the bytes stands for it
HexDigest(data) ==
    IF data = << >> THEN << >>
    ELSE << HexDigit(data[1] \div 16), HexDigit(data[1] % 16) >>
             \o HexDigest(Tail(data))

\* received_mac_address.replace(':', '-'), or "UNKNOWN_MAC" (the empty
\* sequence here) when there is no MAC or an empty one
MacSuffix(received_mac_address) ==
    IF received_mac_address = << >> \/ received_mac_address[1] = << >>
    THEN << >>
    ELSE [ i \in 1..Len(received_mac_address[1]) |->
             IF received_mac_address[1][i] = 58 THEN 45
             ELSE received_mac_address[1][i] ]

\* ResetState leaving the received hash in place
ResetStateKeepHash(r, why) ==
    [ r EXCEPT !.received_mac_address = << >>, !.image_buffer = << >>,
               !.input = << >>, !.state = "WAITING_MAC", !.at = "top",
               !.chunk_len = 0, !.last = why ]

\* the reset of the chunk phase: MAC, hash and image buffer cleared,
\* ser.reset_input_buffer(), state WAITING_MAC
ResetState(r, why) ==
    [ r EXCEPT !.received_mac_address = << >>,
               !.received_hash_from_esp = << >>, !.image_buffer = << >>,
               !.input = << >>, !.state = "WAITING_MAC", !.at = "top",
               !.chunk_len = 0, !.last = why ]

\* the seconds since last_data_time after a wait of d seconds
Idle(r, d) == Min(r.idle + d, IDLE_LIMIT + 1)

\* an empty readline: "Still waiting" sets last_data_time when due
StillWaiting(r) ==
    [ r EXCEPT !.idle = IF Idle(r, SERIAL_TIMEOUT) > IDLE_LIMIT THEN 0
                        ELSE Idle(r, SERIAL_TIMEOUT),
               !.last = "silence" ]

\* one iteration in state WAITING_MAC
WaitingMac(r) ==
    LET rl == ReadLine(r.input)
        line == Strip(Decode(rl.line_bytes))
    IN  IF rl.line_bytes = << >> THEN StillWaiting(r)
        ELSE IF StartsWith(line, MacPrefix)
        THEN [ r EXCEPT
                 !.received_mac_address =
                     << SubSeq(line, Len(MacPrefix) + 1, Len(line)) >>,
                 !.state = "WAITING_HASH", !.idle = 0, !.input = rl.rest,
                 !.last = "mac" ]
        ELSE [ r EXCEPT !.input = rl.rest,
                        !.last = IF line # << >> THEN "unexpected"
                                 ELSE "blank" ]

\* one iteration in state WAITING_HASH
WaitingHash(r) ==
    LET rl == ReadLine(r.input)
        line == Strip(Decode(rl.line_bytes))
    IN  IF rl.line_bytes = << >> THEN StillWaiting(r)
        ELSE IF StartsWith(line, HashPrefix)
        THEN [ r EXCEPT
                 !.received_hash_from_esp =
                     << SubSeq(line, Len(HashPrefix) + 1, Len(line)) >>,
                 !.image_buffer = << >>,
                 !.state = "RECEIVING_CHUNKS", !.idle = 0,
                 !.input = rl.rest, !.last = "hash" ]
        ELSE IF line # << >>
        THEN [ r EXCEPT !.received_mac_address = << >>, !.input = << >>,
                        !.state = "WAITING_MAC", !.last = "unexpected" ]
        ELSE [ r EXCEPT !.input = rl.rest, !.last = "blank" ]

\* the chunk length is one the sender can have sent
ChunkLenOk(chunk_len) == chunk_len # 0 /\ chunk_len <= CHUNK_LEN_LIMIT

\* state RECEIVING_CHUNKS up to the length check: read_exact(ser, 2), which
\* gives up after d seconds when the length does not come
ReadChunkLength(r, d) ==
    LET x == ReadExact(r.input, 2)
    IN  IF x.data = << >>
        THEN IF Idle(r, d) > IDLE_LIMIT
             THEN [ ResetState(r, "length_timeout") EXCEPT
                      !.idle = Idle(r, d) ]
             ELSE [ r EXCEPT !.input = << >>, !.idle = Idle(r, d),
                             !.last = "length_wait" ]
        ELSE IF ~ChunkLenOk(UnpackU16(x.data[1]))
        THEN [ ResetState(r, "bad_length") EXCEPT !.idle = 0 ]
        ELSE [ r EXCEPT !.input = x.rest,
                        !.chunk_len = UnpackU16(x.data[1]),
                        !.at = "chunk", !.idle = 0, !.last = "length" ]

\* the rest of the iteration: read_exact(ser, chunk_len), the append, the
\* search for the end marker and the save; ok tells whether open and write
\* succeed.  buffer in a saved file is history: the image buffer searched.
ReadChunkData(r, ok) ==
    LET x == ReadExact(r.input, r.chunk_len)
        image_buffer == r.image_buffer \o x.data[1]
        eoi_index == Find(image_buffer, JPEG_EOI, 0)
        jpeg_data == SubSeq(image_buffer, 1, eoi_index + Len(JPEG_EOI))
        calculated_hash == HexDigest(jpeg_data)
    IN  IF x.data = << >>
        THEN [ ResetState(r, "chunk_timeout") EXCEPT
                 !.idle = Idle(r, READ_EXACT_TIMEOUT + 1) ]
        ELSE IF eoi_index # -1
        THEN [ ResetState(r, IF ok THEN "saved" ELSE "save_failed") EXCEPT
                 !.saved =
                     IF ok
                     THEN Append(@, [ mac_suffix |->
                                          MacSuffix(r.received_mac_address),
                                      jpeg_data |-> jpeg_data,
                                      match |-> r.received_hash_from_esp
                                                  = << calculated_hash >>,
                                      buffer |-> image_buffer ])
                     ELSE @ ]
        ELSE [ r EXCEPT !.image_buffer = image_buffer, !.input = x.rest,
                        !.at = "top", !.chunk_len = 0, !.last = "chunk" ]

\* what the device of the legacy protocol sends
AppVars ==
    << stream, pos, buffer, frame_start_time, image_buffers,
       last_receive_time, tasks, now, next_sweep, pc, wake, opens, gaps,
       last_rx, log, iters, stuck, transport, future, cancelled, sweeper,
       sink, stats, files >>

\* a chunk on the wire: its length as u16 little endian, then its bytes
Chunk(data) == << Len(data) % 256, Len(data) \div 256 >> \o data

\* "MAC:a:b\n", "HASH:ffd9\n" and an empty line; read as lines, the chunks
\* below are the unexpected ones
MacLine == MacPrefix \o << 97, 58, 98, 10 >>

HashLine == HashPrefix \o HexDigest(JPEG_EOI) \o << 10 >>

BlankLine == << 13, 10 >>

\* a chunk length of 0, one of 251, and a chunk that lacks its last byte
ZeroLength == << 0, 0 >>

LongLength == << 251, 0 >>

ShortChunk == << 3, 0, 1, 2 >>

LegacyPieces ==
    { MacLine, HashLine, BlankLine, Chunk(JPEG_EOI),
      Chunk(<< 1, 255 >>), Chunk(<< 217, 2 >>), ZeroLength, LongLength,
      ShortChunk }

MaxLegacyPieces == 4

\* the device sends a piece
DeviceSends(piece) ==
    /\ receiver.at # "exited"
    /\ receiver.sent < MaxLegacyPieces
    /\ receiver' = [ receiver EXCEPT !.input = @ \o piece, !.sent = @ + 1,
                                     !.last = "sent" ]
    /\ UNCHANGED AppVars

\* one pass through the while loop up to its first blocking read returning
ReceiverStep(d) ==
    /\ receiver.at = "top"
    /\ receiver' =
          CASE receiver.state = "WAITING_MAC" -> WaitingMac(receiver)
            [] receiver.state = "WAITING_HASH" -> WaitingHash(receiver)
            [] receiver.state = "RECEIVING_CHUNKS" ->
                   ReadChunkLength(receiver, d)
    /\ UNCHANGED AppVars

ChunkStep(ok) ==
    /\ receiver.at = "chunk"
    /\ receiver' = ReadChunkData(receiver, ok)
    /\ UNCHANGED AppVars

\* KeyboardInterrupt or an exception of the port: the loop is left and the
\* port is closed
ReceiverExit ==
    /\ receiver.at # "exited"
    /\ receiver' = [ receiver EXCEPT !.at = "exited", !.last = "exit" ]
    /\ UNCHANGED AppVars

InitLegacy ==
    /\ stream = << >>
    /\ Fresh
    /\ pc = "monitor"
    /\ opens = 1
    /\ transport = "open"

NextLegacy ==
    \/ \E piece \in LegacyPieces : DeviceSends(piece)
    \/ \E d \in { READ_EXACT_TIMEOUT + 1, IDLE_LIMIT + 1 } : ReceiverStep(d)
    \/ \E ok \in BOOLEAN : ChunkStep(ok)
    \/ ReceiverExit

SpecLegacy == InitLegacy /\ [][NextLegacy]_vars

----------------------------------------------------------------------------
(* Properties *)

\* a protocol instance and empty maps, as at the first read
FreshCodec ==
    [ buffer |-> NewBuffer, frame_start_time |-> None,
      image_buffers |-> << >>, last_receive_time |-> << >>,
      tasks |-> << >>, log |-> << >>, iters |-> << >>, stuck |-> FALSE,
      go |-> TRUE, out |-> "" ]

\* the whole of S delivered in a single read
OneChunk(S) == DataReceivedOn(FreshCodec, S, 1)

IsFrameEvent(e) == e.ev = "frame"

\* the frames accepted, in order, each as (kind, MAC, sequence, payload)
Accepted(l) ==
    LET fs == SelectSeq(l, IsFrameEvent)
    IN  [ i \in 1..Len(fs) |->
            << fs[i].kind, fs[i].mac, fs[i].seq, fs[i].payload >> ]

Delivered == SubSeq(stream, 1, pos)

AllDelivered == pos = Len(stream)

LastIter == iters[Len(iters)]

NeedMore == { "no_marker", "need_header", "need_frame" }

IsData(e, m) == e.ev = "frame" /\ e.kind = FRAME_TYPE_DATA /\ e.mac = m

IsEof(e, m) == e.ev = "frame" /\ e.kind = FRAME_TYPE_EOF /\ e.mac = m

IsEvict(e, m) == e.ev = "evict" /\ e.mac = m

Max(S) == CHOOSE x \in S : \A y \in S : y <= x

\* the DATA frames of sender m accepted before position i of the history and
\* after m's last EOF or eviction before i
DataSince(l, i, m) ==
    LET ends == { j \in 1..(i - 1) : IsEof(l[j], m) \/ IsEvict(l[j], m) }
        since == IF ends = {} THEN 0 ELSE Max(ends)
    IN  { j \in (since + 1)..(i - 1) : IsData(l[j], m) }

RECURSIVE PayloadsUpTo(_, _, _)
\* the payloads of the history positions js up to position n, in order
PayloadsUpTo(l, js, n) ==
    IF n = 0 THEN << >>
    ELSE PayloadsUpTo(l, js, n - 1) \o (IF n \in js THEN l[n].payload ELSE << >>)

RECURSIVE BlobsUpTo(_, _)
\* the blobs the EOF frames among the first n history records finalize
BlobsUpTo(l, n) ==
    IF n = 0 THEN << >>
    ELSE LET e == l[n]
             js == DataSince(l, n, e.mac)
         IN  BlobsUpTo(l, n - 1) \o
             (IF e.ev = "frame" /\ e.kind = FRAME_TYPE_EOF /\ js # {}
              THEN << [ mac |-> e.mac, data |-> PayloadsUpTo(l, js, n) ] >>
              ELSE << >>)

\* C1: for every stream and every way of splitting it into reads, the frames
\* accepted once the whole stream is delivered are those accepted when the
\* stream is delivered in a single read.
C1_StreamingEquivalence ==
    AllDelivered => Accepted(log) = Accepted(OneChunk(stream).log)

\* C2: the blobs handed to save_image are, in order, one per EOF of a sender
\* with an entry, each the concatenation in arrival order of the payloads of
\* that sender's DATA frames since its entry was created; the frames of
\* other senders do not appear in it.
C2_PerSenderReassembly == tasks = BlobsUpTo(log, Len(log))

C2_Witness ==
    /\ Len(log) = 4
    /\ IsData(log[1], MacStr(MacA))
    /\ IsData(log[2], MacStr(MacB))
    /\ IsData(log[3], MacStr(MacA))
    /\ IsEof(log[4], MacStr(MacA))
    /\ tasks = << [ mac |-> MacStr(MacA), data |-> << 1, 2, 4 >> ] >>

\* C3: an accepted EOF for a sender with an entry creates exactly one
\* save_image task; an accepted EOF for a sender without one creates none
\* and leaves both maps unchanged.
C3_OneBlobPerEof ==
    /\ \A i \in 1..Len(log) :
          (log[i].ev = "frame" /\ log[i].kind = FRAME_TYPE_EOF) =>
              /\ log[i].had => log[i].blobs = 1
              /\ ~log[i].had => (log[i].blobs = 0 /\ log[i].same)
    /\ Len(tasks) =
          Cardinality({ i \in 1..Len(log) :
              log[i].ev = "frame" /\ log[i].kind = FRAME_TYPE_EOF
                  /\ log[i].had })

C3_Witness ==
    /\ \E i \in 1..Len(log) : IsEof(log[i], MacStr(MacA)) /\ log[i].had
    /\ \E i \in 1..Len(log) : IsEof(log[i], MacStr(MacB)) /\ ~log[i].had
    /\ Len(tasks) = 1

\* C4: of two consecutive EOF frames for one sender with no DATA frame for it
\* between them, the second finds no entry and creates no task, so the pair
\* creates exactly one blob when the first found an entry.
C4_FinalizeIdempotent ==
    \A i \in 1..Len(log) : \A j \in (i + 1)..Len(log) :
        ( /\ log[i].ev = "frame" /\ log[i].kind = FRAME_TYPE_EOF
          /\ IsEof(log[j], log[i].mac)
          /\ \A k \in (i + 1)..(j - 1) : ~IsData(log[k], log[i].mac) )
        => /\ ~log[j].had
           /\ log[j].blobs = 0
           /\ log[i].had => log[i].blobs + log[j].blobs = 1

C4_Witness ==
    /\ Len(log) = 3
    /\ IsData(log[1], MacStr(MacA))
    /\ IsEof(log[2], MacStr(MacA))
    /\ IsEof(log[3], MacStr(MacA))
    /\ Len(tasks) = 1

\* C5: every iteration of the loop of process_buffer accepts a frame,
\* shortens the buffer or leaves the loop for more data, and the loop ends
\* within its variant of len(buffer) continuing iterations.
C5_ResyncProgress ==
    /\ ~stuck
    /\ \A i \in 1..Len(iters) :
          \/ iters[i].out \in NeedMore
          \/ iters[i].out = "accepted"
          \/ iters[i].after < iters[i].before
    /\ \A i \in 1..Len(iters) : (iters[i].out \in NeedMore) <=> (i = Len(iters))

C5_Witness ==
    /\ Len(iters) >= 3
    /\ \E i \in 1..Len(iters) : iters[i].out = "bad_len"
    /\ \E i \in 1..Len(iters) : iters[i].out = "accepted"
    /\ LastIter.out \in NeedMore

MarkerHead(k) == SubSeq(START_MARKER, 1, k)

MarkerRest(k) == SubSeq(START_MARKER, k + 1, Len(START_MARKER))

\* the last process_buffer found no start marker in the buffer
FoundNoMarker == iters # << >> /\ LastIter.out = "no_marker"

\* C6 (state part): when process_buffer finds no start marker it leaves at
\* most len(START_MARKER) - 1 bytes, the last ones received, and with them
\* every beginning of a start marker the searched buffer ended with.
C6_KeepRegionState ==
    FoundNoMarker =>
        /\ Len(buffer) <= Len(START_MARKER) - 1
        /\ Len(buffer) <= pos
        /\ buffer = Last(Delivered, Len(buffer))
        /\ \A k \in 1..(Len(START_MARKER) - 1) :
              (k <= LastIter.before /\ k <= pos
                  /\ Last(Delivered, k) = MarkerHead(k))
              => (Len(buffer) >= k /\ Last(buffer, k) = MarkerHead(k))

\* C6 (step part): when the kept bytes end with the first k bytes of a start
\* marker and the next read begins with its other bytes, that read finds a
\* start marker.
C6_StraddleStep ==
    ( /\ FoundNoMarker
      /\ \E k \in 1..(Len(START_MARKER) - 1) :
            /\ Len(buffer) >= k
            /\ Last(buffer, k) = MarkerHead(k)
            /\ pos' - pos >= Len(START_MARKER) - k
            /\ SubSeq(stream, pos + 1, pos + Len(START_MARKER) - k)
                   = MarkerRest(k) )
    => ( iters' # << >> /\ iters'[1].out # "no_marker" )

C7_ReopenStartsEmpty ==
    [][ (pc = "connect" /\ pc' = "monitor")
        => ( /\ buffer' = << >>
             /\ image_buffers' = << >>
             /\ last_receive_time' = << >> ) ]_vars

\* C8: an EOF accepted more than IMAGE_TIMEOUT after the sender's last
\* accepted DATA finds no entry and creates no task.
C8_ReassemblyTimeout ==
    \A i \in 1..Len(log) :
        (log[i].ev = "frame" /\ log[i].kind = FRAME_TYPE_EOF) =>
            LET ds == { j \in 1..(i - 1) : IsData(log[j], log[i].mac) }
            IN  (ds # {} /\ log[i].at - log[Max(ds)].at > IMAGE_TIMEOUT)
                    => log[i].blobs = 0

\* C9: a header with DATA_LEN = 1000 is rejected without a change to the
\* maps, and the well-formed frame that follows it is handled as if it stood
\* alone, however the stream is split into reads.
C9_BadLengthRecovery ==
    \A f \in { DataA1, DataB1, EofA, HashA } :
        (stream = BadLenA \o f /\ AllDelivered) =>
            /\ Accepted(log) = Accepted(OneChunk(f).log)
            /\ image_buffers = OneChunk(f).image_buffers
            /\ tasks = OneChunk(f).tasks

\* C10: after a valid header and a silence of more than FRAME_TIMEOUT the
\* partial frame is dropped, and the well-formed frame received afterwards is
\* accepted, however it is split into reads.
C10_FrameTimeoutRecovery ==
    ( /\ stream = HeaderOnlyA \o DataB1
      /\ AllDelivered
      /\ gaps = { Len(HeaderOnlyA) } )
    => Accepted(log) = Accepted(OneChunk(DataB1).log)

IsDiscard(e) == e.ev = "discard"

\* the counts the "Discarding n bytes before start marker" warnings report
Discards(l) ==
    LET ds == SelectSeq(l, IsDiscard)
    IN  [ i \in 1..Len(ds) |-> ds[i].n ]

\* well-formed frames of the kinds the codec knows
GoodFrames == { DataA1, DataB1, EofA, HashA, DataMarkerB }

\* C11 as stated: the frame after the garbage is accepted and the garbage is
\* discarded in a single step that reports its length, however the stream is
\* split into reads.
C11_GarbagePrefixAnySplit ==
    \A f \in GoodFrames :
        (stream = Garbage \o f /\ AllDelivered) =>
            /\ Accepted(log) = Accepted(OneChunk(f).log)
            /\ Discards(log) = << Len(Garbage) >>

\* C11 (state part): the frame after the garbage is accepted however the
\* stream is split into reads, at most one discard step is reported, and it
\* reports at most the length of the garbage.
C11_GarbagePrefixState ==
    \A f \in GoodFrames :
        (stream = Garbage \o f /\ AllDelivered) =>
            /\ Accepted(log) = Accepted(OneChunk(f).log)
            /\ Len(Discards(log)) <= 1
            /\ \A i \in 1..Len(Discards(log)) :
                  Discards(log)[i] <= Len(Garbage)

\* C11 (step part): when the garbage and the frame arrive in one read, a
\* single discard step reports the length of the garbage.
C11_GarbagePrefixStep ==
    \A f \in GoodFrames :
        (stream = Garbage \o f /\ pos = 0 /\ pos' = Len(stream)) =>
            Discards(log') = << Len(Garbage) >>

\* C11, amended: the frame that follows N bytes without a start marker is
\* accepted; the bytes are reported by at most one discard step, with a count
\* of at most N, and of exactly N when they arrive in one read with the frame.
C11_GarbagePrefix == []C11_GarbagePrefixState /\ [][C11_GarbagePrefixStep]_vars

C11_Witness ==
    /\ stream = Garbage \o DataB1
    /\ AllDelivered
    /\ Discards(log) = << Len(Garbage) >>
    /\ Accepted(log) = Accepted(OneChunk(DataB1).log)
    /\ Len(Accepted(log)) = 1

\* a frame as the history records it: kind, MAC text, sequence, payload
Tuple(fr) == << fr.kind, MacStr(fr.mac), fr.seq, fr.payload >>

\* C12: once the concatenated encodings of a list of well-formed frames are
\* delivered, in reads of any size, the frames accepted are exactly those of
\* the list, in order, with the same kind, MAC, sequence number and payload.
C12_RoundTrip ==
    AllDelivered =>
        \A fs \in RoundTripLists :
            stream = EncodeAll(fs) =>
                Accepted(log) = [ i \in 1..Len(fs) |-> Tuple(fs[i]) ]

C12_Witness ==
    /\ AllDelivered
    /\ Len(Accepted(log)) = 2
    /\ Accepted(log)[1][3] = [ hi |-> 65535, lo |-> 65535 ]
    /\ Accepted(log)[1][4] = START_MARKER
    /\ Accepted(log)[2][4] = LongPayload

IsCancelled == cancelled.how # "no"

\* main has left the reconnection loop
LeftLoop == pc \in { "cleanup", "done", "exited" }

\* main is in its retry sleep after a failed open or a lost connection, and
\* the sleep ends before the clock of the model stops
Backoff == pc = "sleep" /\ wake <= MaxMainTime

\* C13: main leaves the reconnection loop only when it is cancelled, and
\* after every failed open and every lost connection, clean or with an
\* error, it makes another open attempt unless it is cancelled first.
C13_IndefiniteRetry ==
    /\ [](LeftLoop => IsCancelled)
    /\ [](pc = "sleep" => future \in { "result", "exception" })
    /\ (Backoff ~> (pc = "connect" \/ IsCancelled))

C13_Witness ==
    /\ pc = "connect"
    /\ opens = 1
    /\ now >= 1 + 2 * RETRY_DELAY
    /\ ~IsCancelled

\* C14 (state part): once main is cancelled it is past the reconnection
\* loop, the transport is closed and the cancellation of the sweeper is under
\* way; the sweeper has ended when main returns.
C14_ShutdownState ==
    /\ IsCancelled =>
          (LeftLoop /\ transport = "closed" /\ sweeper # "sleeping")
    /\ pc \in { "done", "exited" } => (IsCancelled /\ sweeper = "done")

\* C14 (step part): after the cancellation no reassembly entry is finalized
\* or changed and no save_image task is created.
C14_NoFinalizeStep ==
    IsCancelled =>
        /\ tasks' = tasks
        /\ Len(sink') = Len(sink)
        /\ image_buffers' = image_buffers

\* C14: a cancellation that arrives while main opens the port, monitors the
\* connection or sleeps before a retry makes main leave the loop, close the
\* transport, cancel and await the sweeper and return, without a blob for
\* the entries still in flight.
C14_Shutdown ==
    /\ []C14_ShutdownState
    /\ [][C14_NoFinalizeStep]_vars
    /\ (IsCancelled ~> pc \in { "done", "exited" })

C14_Witness ==
    /\ pc = "done"
    /\ cancelled.at = "monitor"
    /\ sweeper = "done"
    /\ transport = "closed"
    /\ DOMAIN image_buffers # {}
    /\ tasks = << >>

\* the tasks whose file was written
Written == { files[k].task : k \in DOMAIN files }

\* C15 (state part): a task fails only by a write that raised, and a write
\* that raised leaves no file.
C15_FailedState ==
    \A i \in DOMAIN sink :
        /\ sink[i].st = "failed" => sink[i].io = "error"
        /\ sink[i].io = "error" => i \notin Written

\* C15 (step part): the step in which save_image handles the error of its
\* write changes neither the counters nor the files, nor anything of the
\* codec and of main.
C15_FailStep ==
    \A i \in DOMAIN sink :
        (sink[i].st # "failed" /\ sink'[i].st = "failed") =>
            /\ stats' = stats
            /\ files' = files
            /\ UNCHANGED << pc, transport, sweeper, cancelled, buffer,
                            frame_start_time, image_buffers,
                            last_receive_time, tasks, log >>

\* C15: a failed write is caught in save_image: the image is dropped,
\* received_images and total_bytes stay as they are, and main and the codec
\* go on.
C15_SinkWriteFailure == []C15_FailedState /\ [][C15_FailStep]_vars

C15_Witness ==
    /\ Len(sink) = 2
    /\ sink[1].st = "failed"
    /\ sink[2].st = "saved"
    /\ stats = [ received_images |-> 1, total_bytes |-> Len(tasks[2].data) ]
    /\ Written = { 2 }
    /\ pc = "monitor"

\* C16: when asyncio.run has ended, the file of every blob for which a
\* save_image task was created is written, unless its write raised.
C16_InFlightWritesComplete ==
    pc = "exited" =>
        \A i \in DOMAIN sink : i \in Written \/ sink[i].io = "error"

\* C17 (state part): every file holds the bytes its sender's entry had when
\* the EOF was accepted, and every entry holds only the payloads accepted
\* since its sender's last EOF.
C17_SnapshotState ==
    /\ \A k \in DOMAIN files :
          /\ files[k].task \in 1..Len(BlobsUpTo(log, Len(log)))
          /\ files[k].data = BlobsUpTo(log, Len(log))[files[k].task].data
          /\ files[k].mac = BlobsUpTo(log, Len(log))[files[k].task].mac
    /\ \A m \in DOMAIN image_buffers :
          image_buffers[m] =
              PayloadsUpTo(log, DataSince(log, Len(log) + 1, m), Len(log))

\* C17 (step part): the step that accepts an EOF leaves no entry for its
\* sender, and no step changes a blob handed to save_image or a file.
C17_SnapshotStep ==
    /\ (Len(log') > Len(log) /\ log'[Len(log')].ev = "frame"
            /\ log'[Len(log')].kind = FRAME_TYPE_EOF)
        => log'[Len(log')].mac \notin DOMAIN image_buffers'
    /\ \A i \in DOMAIN tasks : tasks'[i] = tasks[i]
    /\ \A k \in DOMAIN files : files'[k] = files[k]

\* C17: the blob of an EOF is a copy the codec keeps no reference to: the
\* sender has no entry after the EOF, later DATA frames of the sender start
\* a new entry, and the bytes written are those of the finished image.
C17_BlobSnapshot == []C17_SnapshotState /\ [][C17_SnapshotStep]_vars

C17_Witness ==
    /\ Len(log) = 3
    /\ IsData(log[1], MacStr(MacA))
    /\ IsEof(log[2], MacStr(MacA))
    /\ IsData(log[3], MacStr(MacA))
    /\ Len(files) = 1
    /\ files[1].frames = 3
    /\ files[1].data = log[1].payload
    /\ image_buffers[MacStr(MacA)] = log[3].payload

\* the length of a file name: 12 hex digits, "_", YYYYMMDD, "_", HHMMSS,
\* "_", six digits of microseconds, ".jpg"
NameShape(name) ==
    /\ Len(name) = 39
    /\ \A i \in 1..12 : IsHexDigit(name[i])
    /\ name[13] = "_" /\ IsDigits(SubSeq(name, 14, 21))
    /\ name[22] = "_" /\ IsDigits(SubSeq(name, 23, 28))
    /\ name[29] = "_" /\ IsDigits(SubSeq(name, 30, 35))
    /\ SubSeq(name, 36, 39) = << ".", "j", "p", "g" >>

\* C18: the name save_image builds for a sender and a wall-clock time has
\* the shape of the convention, and parse_filename returns from it the
\* sender's MAC text and the same time.
C18_FileNameRoundTrip ==
    \A i \in DOMAIN sink :
        sink[i].st # "created" =>
            /\ NameShape(sink[i].name)
            /\ parse_filename(sink[i].name) = << tasks[i].mac, sink[i].time >>

C18_Witness ==
    /\ Len(files) = 1
    /\ files[1].mac = MacStr(MacC)
    /\ sink[files[1].task].time = DateTime(2026, 1, 1, 9, 5, 7, 42)
    /\ parse_filename(files[1].name)
           = << MacStr(MacC), DateTime(2026, 1, 1, 9, 5, 7, 42) >>

\* the states of the parser before and after each iteration of the while
\* loop, when process_buffer runs on c at time t
RECURSIVE Steps(_, _, _)
Steps(c, t, fuel) ==
    LET r == Iterate(c, t)
    IN  IF ~r.go \/ fuel = 0 THEN << << c, r >> >>
        ELSE << << c, r >> >> \o Steps(r, t, fuel - 1)

\* the iterations of the call data_received makes on the next n bytes
NextSteps(n) ==
    LET c == [ Codec EXCEPT !.buffer = buffer \o SubSeq(stream, pos + 1, pos + n),
                            !.iters = << >>, !.stuck = FALSE ]
    IN  Steps(c, now, Len(c.buffer))

NextReads == { n \in ChunkSizes : n >= 1 /\ pos + n <= Len(stream) }

\* the offsets >= 1 of buf at which a start marker stands
MarkersPastFirst(buf) ==
    { k \in 1..(Len(buf) - Len(START_MARKER)) :
        SubSeq(buf, k + 1, k + Len(START_MARKER)) = START_MARKER }

\* buf read as the wire layout: the announced length, when it is below 65536
AnnouncedLen(buf) == buf[HEADER_LENGTH - 1] * 256 + buf[HEADER_LENGTH]

HasHeader(buf) ==
    /\ Len(buf) >= HEADER_LENGTH
    /\ SubSeq(buf, 1, Len(START_MARKER)) = START_MARKER

\* buf starts with a complete candidate frame whose end marker is wrong
BadEndCandidate(buf) ==
    /\ HasHeader(buf)
    /\ buf[HEADER_LENGTH - 3] = 0
    /\ buf[HEADER_LENGTH - 2] = 0
    /\ AnnouncedLen(buf) <= max_reasonable_data_len
    /\ Len(buf) >= HEADER_LENGTH + AnnouncedLen(buf) + FOOTER_LENGTH
    /\ SubSeq(buf, HEADER_LENGTH + AnnouncedLen(buf) + CHECKSUM_LENGTH + 1,
              HEADER_LENGTH + AnnouncedLen(buf) + FOOTER_LENGTH) # END_MARKER

\* buf starts with a header that announces more than 512 bytes
BadLenCandidate(buf) ==
    /\ HasHeader(buf)
    /\ \/ buf[HEADER_LENGTH - 3] # 0
       \/ buf[HEADER_LENGTH - 2] # 0
       \/ AnnouncedLen(buf) > max_reasonable_data_len

\* C19: a complete candidate frame with a wrong end marker is never
\* applied, whatever its kind: the iteration that meets it changes neither
\* the reassembly entries nor their times, creates no blob and accepts no
\* frame; it leaves the buffer cut to the first start marker at an offset
\* >= 1, or empty when there is none, and the frame timer reset
C19_InvalidEndMarker ==
    \A n \in NextReads :
        LET its == NextSteps(n)
        IN  \A k \in DOMAIN its :
                LET b == its[k][1]
                    a == its[k][2]
                    ms == MarkersPastFirst(b.buffer)
                IN  BadEndCandidate(b.buffer) =>
                        /\ a.out = "bad_end"
                        /\ a.image_buffers = b.image_buffers
                        /\ a.last_receive_time = b.last_receive_time
                        /\ a.tasks = b.tasks
                        /\ Accepted(a.log) = Accepted(b.log)
                        /\ a.frame_start_time = None
                        /\ a.buffer =
                               IF ms = {} THEN << >>
                               ELSE From(b.buffer,
                                         CHOOSE k1 \in ms : \A k2 \in ms : k1 <= k2)

\* an EOF frame with a wrong end marker came after a DATA frame of the same
\* sender: the entry is still there, no blob was made, the buffer is empty
C19_Witness ==
    /\ stream = DataA1 \o BadEndEofA
    /\ AllDelivered
    /\ \E i \in DOMAIN log : log[i].ev = "bad_end"
    /\ MacStr(MacA) \in DOMAIN image_buffers
    /\ image_buffers[MacStr(MacA)] = << 1, 2 >>
    /\ tasks = << >>
    /\ buffer = << >>
    /\ frame_start_time = None

\* the offsets of the stream at which the embedded frame stands; in the
\* streams of SpecReject each of them lies inside a candidate that the
\* parser has to reject
EmbeddedAt ==
    { k \in 0..(Len(stream) - Len(Embedded)) :
        SubSeq(stream, k + 1, k + Len(Embedded)) = Embedded }

IsEmbedded(e) ==
    /\ e.ev = "frame"
    /\ e.kind = FRAME_TYPE_DATA
    /\ e.mac = MacStr(MacB)
    /\ e.payload = << 3 >>

Swept == sweeper = "sleeping" /\ sweeper' = "sleeping" /\ next_sweep' # next_sweep

\* the senders whose last DATA frame is more than IMAGE_TIMEOUT old
Overdue ==
    { m \in DOMAIN last_receive_time :
        now - last_receive_time[m] > IMAGE_TIMEOUT }

\* C21, the pass: a tick of check_timeouts removes exactly the entries whose
\* age is strictly greater than IMAGE_TIMEOUT, logs each removal once and
\* leaves the buffer and the time of every other entry, the parser and the
\* tasks as they were
C21_SweepStep ==
    Swept =>
        /\ DOMAIN last_receive_time' = DOMAIN last_receive_time \ Overdue
        /\ DOMAIN image_buffers' = DOMAIN image_buffers \ Overdue
        /\ \A m \in DOMAIN last_receive_time' :
              last_receive_time'[m] = last_receive_time[m]
        /\ \A m \in DOMAIN image_buffers' :
              image_buffers'[m] = image_buffers[m]
        /\ { log'[i].mac : i \in (Len(log) + 1)..Len(log') } = Overdue
        /\ Len(log') = Len(log) + Cardinality(Overdue)
        /\ \A i \in (Len(log) + 1)..Len(log') :
              log'[i].ev = "evict" /\ log'[i].at = now
        /\ UNCHANGED << buffer, frame_start_time, tasks, now >>

\* C21, the refreshed entry: an eviction never follows a DATA frame of the
\* same sender that was accepted within IMAGE_TIMEOUT of it
C21_NoFreshEvicted ==
    \A i \in DOMAIN log :
        log[i].ev = "evict" =>
            \A j \in 1..(i - 1) :
                IsData(log[j], log[i].mac) =>
                    log[i].at - log[j].at > IMAGE_TIMEOUT

\* C21: sweep semantics
C21_SweepSemantics == []C21_NoFreshEvicted /\ [][C21_SweepStep]_vars

\* a tick evicted sender A and kept sender B, whose last DATA frame was
\* exactly IMAGE_TIMEOUT old
C21_Witness ==
    /\ log # << >>
    /\ log[Len(log)].ev = "evict"
    /\ log[Len(log)].mac = MacStr(MacA)
    /\ log[Len(log)].at = now
    /\ MacStr(MacA) \notin DOMAIN image_buffers
    /\ MacStr(MacB) \in DOMAIN last_receive_time
    /\ now - last_receive_time[MacStr(MacB)] = IMAGE_TIMEOUT
    /\ image_buffers[MacStr(MacB)] = << 3 >>

\* the index of the last DATA frame accepted for m, or 0
LastData(m) ==
    LET js == { j \in DOMAIN log : IsData(log[j], m) }
    IN  IF js = {} THEN 0 ELSE Max(js)

\* a DATA frame for m was accepted and neither an EOF frame nor an eviction
\* for m came after it
OpenFor(m) ==
    /\ LastData(m) # 0
    /\ \A k \in (LastData(m) + 1)..Len(log) :
          ~IsEof(log[k], m) /\ ~IsEvict(log[k], m)

Senders == { MacStr(MacA), MacStr(MacB) }

\* C22: a sender has a reassembly entry exactly when a DATA frame of it was
\* accepted since its last EOF frame or eviction; so HASH, EOF, unknown and
\* rejected frames create none, and a DATA frame with an empty payload does
C22_EntryLifecycle ==
    /\ DOMAIN image_buffers \subseteq Senders
    /\ \A m \in Senders : m \in DOMAIN image_buffers <=> OpenFor(m)

\* an entry made by a DATA frame with an empty payload, after the sender's
\* earlier entry was evicted
C22_Witness ==
    /\ image_buffers = (MacStr(MacA) :> << >>)
    /\ \E i \in DOMAIN log : IsEvict(log[i], MacStr(MacA)) /\ i < LastData(MacStr(MacA))
    /\ log[LastData(MacStr(MacA))].payload = << >>
    /\ ~log[LastData(MacStr(MacA))].had

\* C30: image_buffers and last_receive_time have the same keys
C30_MapsInStep == DOMAIN image_buffers = DOMAIN last_receive_time

\* both maps hold sender B alone, after an eviction of sender A and on the
\* second connection
C30_Witness ==
    /\ opens = 2
    /\ pc = "monitor"
    /\ \E i \in DOMAIN log : IsEvict(log[i], MacStr(MacA))
    /\ DOMAIN image_buffers = { MacStr(MacB) }
    /\ DOMAIN last_receive_time = { MacStr(MacB) }

\* the length of the frame that s starts with, s being a concatenation of
\* well-formed frames with payloads shorter than 65536 bytes
FirstLen(s) == HEADER_LENGTH + AnnouncedLen(s) + FOOTER_LENGTH

\* the kind of the frame that s starts with
FirstKind(s) == s[Len(START_MARKER) + MAC_ADDRESS_LENGTH + 1]

KnownKinds == { FRAME_TYPE_HASH, FRAME_TYPE_DATA, FRAME_TYPE_EOF }

\* s without its frames of unknown kind
RECURSIVE StripUnknown(_)
StripUnknown(s) ==
    IF Len(s) = 0 THEN << >>
    ELSE (IF FirstKind(s) \in KnownKinds THEN SubSeq(s, 1, FirstLen(s))
          ELSE << >>) \o StripUnknown(From(s, FirstLen(s)))

\* buf starts with a complete well-formed frame of a kind other than 1, 2, 3
UnknownCandidate(buf) ==
    /\ HasHeader(buf)
    /\ buf[HEADER_LENGTH - 3] = 0
    /\ buf[HEADER_LENGTH - 2] = 0
    /\ AnnouncedLen(buf) <= max_reasonable_data_len
    /\ Len(buf) >= FirstLen(buf)
    /\ SubSeq(buf, FirstLen(buf) - Len(END_MARKER) + 1, FirstLen(buf)) = END_MARKER
    /\ FirstKind(buf) \notin KnownKinds

\* the frame events of the log l
FrameEvents(l) == SelectSeq(l, IsFrameEvent)

\* kind, sender and payload of the frames of known kind accepted in l
KnownBodiesOf(l) ==
    LET known == SelectSeq(FrameEvents(l), LAMBDA e : e.kind \in KnownKinds)
    IN  [ i \in DOMAIN known |->
            << known[i].kind, known[i].mac, known[i].payload >> ]

\* C23: a well-formed frame of a kind other than 1, 2, 3 is consumed and
\* dropped: the iteration that meets it removes exactly the frame from the
\* buffer and changes neither the reassembly maps nor the tasks; and once the
\* stream is delivered, maps, tasks and the accepted frames of known kinds
\* are those of the stream without the frames of unknown kind
C23_UnknownKind ==
    /\ \A n \in NextReads :
          LET its == NextSteps(n)
          IN  \A k \in DOMAIN its :
                  LET b == its[k][1]
                      a == its[k][2]
                  IN  UnknownCandidate(b.buffer) =>
                          /\ a.out = "accepted"
                          /\ a.buffer = From(b.buffer, FirstLen(b.buffer))
                          /\ a.image_buffers = b.image_buffers
                          /\ a.last_receive_time = b.last_receive_time
                          /\ a.tasks = b.tasks
                          /\ a.frame_start_time = None
    /\ AllDelivered =>
          LET ref == OneChunk(StripUnknown(stream))
          IN  /\ image_buffers = ref.image_buffers
              /\ tasks = ref.tasks
              /\ buffer = << >>
              /\ KnownBodiesOf(log) = KnownBodiesOf(ref.log)

\* a frame of unknown kind came after a DATA frame of the same sender: it
\* was consumed and left the entry as it was
C23_Witness ==
    /\ AllDelivered
    /\ Len(FrameEvents(log)) = 2
    /\ FrameEvents(log)[1].kind = FRAME_TYPE_DATA
    /\ FrameEvents(log)[2].kind \in UnknownKinds
    /\ FrameEvents(log)[2].mac = MacStr(MacA)
    /\ FrameEvents(log)[2].same
    /\ image_buffers = (MacStr(MacA) :> << 1, 2 >>)
    /\ tasks = << >>

\* s with the SEQUENCE and CHECKSUM fields of every frame set to zero
RECURSIVE Canon(_)
Canon(s) ==
    IF Len(s) = 0 THEN << >>
    ELSE LET n == FirstLen(s)
             seq_at == HEADER_LENGTH - LENGTH_FIELD_BYTES - SEQUENCE_NUM_LENGTH
             sum_at == n - FOOTER_LENGTH
         IN  [ i \in 1..n |->
                 IF \/ i \in (seq_at + 1)..(seq_at + SEQUENCE_NUM_LENGTH)
                    \/ i \in (sum_at + 1)..(sum_at + CHECKSUM_LENGTH)
                 THEN 0 ELSE s[i] ]
             \o Canon(From(s, n))

\* the payloads of the DATA frames of s, in the order of arrival
RECURSIVE DataPayloads(_)
DataPayloads(s) ==
    IF Len(s) = 0 THEN << >>
    ELSE (IF FirstKind(s) = FRAME_TYPE_DATA
          THEN SubSeq(s, HEADER_LENGTH + 1, HEADER_LENGTH + AnnouncedLen(s))
          ELSE << >>) \o DataPayloads(From(s, FirstLen(s)))

\* kind, sender and payload of every frame accepted in l
BodiesOf(l) ==
    [ i \in DOMAIN FrameEvents(l) |->
        << FrameEvents(l)[i].kind, FrameEvents(l)[i].mac,
           FrameEvents(l)[i].payload >> ]

\* the bytes of all blobs and of the open entries of sender A, in order
Assembled ==
    Concat([ i \in DOMAIN tasks |-> tasks[i].data ])
        \o (IF MacStr(MacA) \in DOMAIN image_buffers
            THEN image_buffers[MacStr(MacA)] ELSE << >>)

\* C27: acceptance and effect of a well-formed frame do not depend on its
\* SEQUENCE and CHECKSUM fields: the delivered stream leaves the blobs, the
\* entries and the accepted frames that the same stream with these fields
\* zeroed leaves, and the DATA payloads are appended in the order of
\* arrival, none dropped and none reordered, whatever the sequence numbers
C27_SeqSumIndependence ==
    AllDelivered =>
        LET ref == OneChunk(Canon(stream))
        IN  /\ tasks = ref.tasks
            /\ image_buffers = ref.image_buffers
            /\ BodiesOf(log) = BodiesOf(ref.log)
            /\ Assembled = DataPayloads(stream)

\* two DATA frames whose sequence numbers run backwards and whose checksums
\* differ were appended in the order of arrival
C27_Witness ==
    /\ AllDelivered
    /\ Len(FrameEvents(log)) = 2
    /\ FrameEvents(log)[1].seq = [ hi |-> 65535, lo |-> 65535 ]
    /\ FrameEvents(log)[2].seq = NoSeq
    /\ image_buffers = (MacStr(MacA) :> << 4, 1, 2 >>)

\* the length of a frame with the longest payload: 4+6+1+4+4+512+4+4
MaxFrameLength == HEADER_LENGTH + max_reasonable_data_len + FOOTER_LENGTH

\* C24: whenever process_buffer has returned, the buffer is shorter than one
\* frame of the largest size: at most 3 bytes when it holds no start marker;
\* otherwise it begins with the start marker and is shorter than a header,
\* or holds a header that announces at most 512 bytes and is shorter than
\* the frame announced
C24_BufferBound ==
    /\ Len(buffer) < MaxFrameLength
    /\ MaxFrameLength = 539
    /\ IF Find(buffer, START_MARKER, 0) = -1
       THEN Len(buffer) <= Len(START_MARKER) - 1
       ELSE /\ Find(buffer, START_MARKER, 0) = 0
            /\ \/ Len(buffer) < HEADER_LENGTH
               \/ /\ buffer[HEADER_LENGTH - 3] = 0
                  /\ buffer[HEADER_LENGTH - 2] = 0
                  /\ AnnouncedLen(buffer) <= max_reasonable_data_len
                  /\ Len(buffer) < FirstLen(buffer)

\* one byte short of a frame of the largest size
C24_Witness ==
    /\ Len(buffer) = MaxFrameLength - 1
    /\ buffer = SubSeq(LongA, 1, MaxFrameLength - 1)
    /\ LastIter.out = "need_frame"
    /\ \E i \in DOMAIN log : log[i].ev = "discard"

\* C25, the places of the reconnection loop: the transport is open only
\* while main awaits the completion signal; in the retry sleep the signal
\* has fired (or the open has failed) and the transport is closed; at an
\* open attempt the transport is closed and the signal of the new iteration
\* is pending
C25_OrderState ==
    /\ transport = "open" => pc = "monitor" /\ future = "pending"
    /\ pc = "sleep" =>
          /\ transport = "closed"
          /\ future \in { "result", "exception" }
          /\ now <= wake
    /\ pc = "connect" => transport = "closed" /\ future = "pending"

\* C25, the steps of the reconnection loop: the sleep starts when the
\* signal fires or the open fails and lasts RETRY_DELAY from then; it is not
\* shortened; the next open attempt follows the end of the sleep only; a
\* transport is opened only at an open attempt, when none is open
C25_OrderStep ==
    /\ (pc # "sleep" /\ pc' = "sleep") =>
          /\ pc \in { "connect", "monitor" }
          /\ future = "pending"
          /\ now' = now
          /\ wake' = now + RETRY_DELAY
    /\ (pc = "sleep" /\ pc' = "sleep") => wake' = wake
    /\ (pc # "connect" /\ pc' = "connect") => pc = "sleep" /\ now >= wake
    /\ (transport = "closed" /\ transport' = "open") =>
          /\ pc = "connect"
          /\ pc' = "monitor"
          /\ opens' = opens + 1
    /\ opens' # opens => transport = "closed" /\ transport' = "open"

Saved == { i \in DOMAIN sink : sink[i].st = "saved" }

\* the tasks whose write has returned but whose save_image has not resumed
WrittenNotResumed ==
    { i \in DOMAIN sink : sink[i].st = "awaiting" /\ sink[i].io = "ok" }

RECURSIVE SumSizes(_)
\* the sizes of the images of the tasks S, summed
SumSizes(S) ==
    IF S = { } THEN 0
    ELSE LET i == CHOOSE x \in S : TRUE
         IN  Len(tasks[i].data) + SumSizes(S \ { i })

\* the tasks that logged a statistics line
Lined == { i \in DOMAIN sink : sink[i].line # << >> }

C26_CountersState ==
    /\ stats.received_images = Cardinality(Saved)
    /\ stats.total_bytes = SumSizes(Saved)
    /\ Saved \subseteq Written
    /\ Written \ Saved = WrittenNotResumed
    /\ Cardinality(Lined) = stats.received_images \div 10
    /\ \A i \in Lined :
          /\ i \in Saved
          /\ sink[i].line[1].count % 10 = 0
          /\ sink[i].line[1].count \in 1..stats.received_images
    /\ \A i, j \in Lined :
          sink[i].line[1].count = sink[j].line[1].count => i = j

\* C26 (step part): the counters change only in the step in which one
\* save_image resumes after a write that returned, by one image and its
\* size; that step logs a statistics line exactly when the new count is a
\* positive multiple of 10, the line tells the new counters, and no other
\* step logs one.
C26_CountersStep ==
    /\ stats' # stats =>
          \E i \in DOMAIN sink :
              /\ sink[i].st = "awaiting" /\ sink[i].io = "ok"
              /\ sink'[i].st = "saved"
              /\ stats' = Counted(stats, Len(tasks[i].data))
              /\ (sink'[i].line # << >>) <=>
                     (stats'.received_images > 0
                        /\ stats'.received_images % 10 = 0)
              /\ sink'[i].line # << >> =>
                     sink'[i].line[1] =
                         [ count |-> stats'.received_images,
                           total |-> stats'.total_bytes ]
              /\ \A j \in DOMAIN sink \ { i } : sink'[j].line = sink[j].line
    /\ stats' = stats =>
          \A j \in DOMAIN sink : sink'[j].line = sink[j].line
    /\ \A j \in DOMAIN sink' \ DOMAIN sink : sink'[j].line = << >>

BufferOffset == pos - Len(buffer)

\* the buffer starts with a start marker: the codec has a current candidate
HasCandidate ==
    /\ Len(buffer) >= Len(START_MARKER)
    /\ SubSeq(buffer, 1, Len(START_MARKER)) = START_MARKER

\* the candidate has been the current one for more than FRAME_TIMEOUT
CandidateOverdue ==
    frame_start_time # None /\ now - frame_start_time > FRAME_TIMEOUT

\* the length on the wire of an accepted frame
WireLength(e) ==
    HEADER_LENGTH + Len(e.payload) + CHECKSUM_LENGTH + Len(END_MARKER)

\* the offsets in the stream of the start markers of the frames a read
\* accepts: the k-th accepting iteration consumed the k-th new frame of the
\* history, and left the buffer at the frame's end
AcceptedOffsets ==
    LET new == SelectSeq(SubSeq(log', Len(log) + 1, Len(log')),
                         IsFrameEvent)
        acc == { k \in DOMAIN iters' : iters'[k].out = "accepted" }
        nth(k) == Cardinality({ j \in acc : j <= k })
    IN  { pos' - iters'[k].after - WireLength(new[nth(k)]) : k \in acc }

\* C28 (state part): the timer is armed exactly while the codec has a
\* current candidate, and never holds a time of the future.
C28_TimerState ==
    /\ HasCandidate <=> frame_start_time # None
    /\ frame_start_time # None => frame_start_time <= now

\* C28 (step part): the timer holds the time of the read in which the
\* current candidate was first taken: a read that takes a new candidate
\* arms it with the time of the read, and a read that keeps the candidate
\* keeps the timer.  A read whose first iteration starts more than
\* FRAME_TIMEOUT after that time begins with the timeout warning and does
\* not accept a frame at the candidate's start marker, whatever bytes it
\* brings.
C28_TimerStep ==
    pos' > pos =>
        /\ (frame_start_time' # None
               /\ (frame_start_time = None \/ BufferOffset' # BufferOffset))
            => frame_start_time' = now
        /\ (frame_start_time' # None /\ frame_start_time # None
               /\ BufferOffset' = BufferOffset)
            => frame_start_time' = frame_start_time
        /\ CandidateOverdue =>
              /\ Len(log') > Len(log)
              /\ log'[Len(log) + 1].ev = "timeout"
              /\ BufferOffset \notin AcceptedOffsets
              /\ \A o \in AcceptedOffsets : o > BufferOffset

\* C28: no frame is accepted in an iteration that starts more than
\* FRAME_TIMEOUT after its start marker became the current candidate, also
\* when the read completes the frame: the timeout check discards it.
C28_NoOverdueAccept == []C28_TimerState /\ [][C28_TimerStep]_vars

\* the first frame was complete and well-formed when its last bytes came,
\* more than FRAME_TIMEOUT after its first ones: it was discarded by the
\* timeout check, and the frame behind it was accepted
C28_Witness ==
    /\ stream = DataA1 \o DataB1
    /\ AllDelivered
    /\ \E i \in DOMAIN log :
          log[i].ev = "timeout" /\ log[i].n = Len(DataA1)
    /\ Len(Accepted(log)) = 1
    /\ Accepted(log)[1][2] = MacStr(MacB)
    /\ MacStr(MacA) \notin DOMAIN image_buffers

\* MAC, hash and image buffer of the legacy receiver are cleared and it
\* waits for a MAC
Cleared(r) ==
    /\ r.state = "WAITING_MAC"
    /\ r.image_buffer = << >>
    /\ r.received_mac_address = << >>
    /\ r.received_hash_from_esp = << >>

\* the step is one of receive_and_save_jpeg, not of the device
ReceiverMoved ==
    /\ receiver' # receiver
    /\ receiver'.sent = receiver.sent
    /\ receiver'.at # "exited"

\* the line the legacy receiver reads next, decoded and stripped
NextLine == Strip(Decode(ReadLine(receiver.input).line_bytes))

\* the image buffer after the chunk awaited is appended
WithChunk ==
    receiver.image_buffer \o SubSeq(receiver.input, 1, receiver.chunk_len)

\* C29 (state part): outside RECEIVING_CHUNKS the image buffer and the hash
\* are empty, in WAITING_MAC there is no MAC, and RECEIVING_CHUNKS has both
\* a MAC and a hash; every file holds the bytes of its image buffer up to
\* and including the first JPEG end marker.
C29_LegacyState ==
    /\ receiver.state \in { "WAITING_MAC", "WAITING_HASH",
                            "RECEIVING_CHUNKS" }
    /\ receiver.state # "RECEIVING_CHUNKS" =>
          /\ receiver.image_buffer = << >>
          /\ receiver.received_hash_from_esp = << >>
          /\ receiver.at # "chunk"
    /\ receiver.state = "WAITING_MAC" => Cleared(receiver)
    /\ receiver.state # "WAITING_MAC" =>
          receiver.received_mac_address # << >>
    /\ receiver.state = "RECEIVING_CHUNKS" =>
          /\ receiver.received_hash_from_esp # << >>
          /\ Find(receiver.image_buffer, JPEG_EOI, 0) = -1
    /\ \A k \in DOMAIN receiver.saved :
          LET f == receiver.saved[k]
              e == Find(f.buffer, JPEG_EOI, 0)
          IN  /\ e # -1
              /\ f.jpeg_data = SubSeq(f.buffer, 1, e + Len(JPEG_EOI))

\* C29 (step part): WAITING_HASH is entered only from WAITING_MAC by a
\* 'MAC:' line and RECEIVING_CHUNKS only from WAITING_HASH by a 'HASH:'
\* line; bytes are appended to the image buffer only by the chunk read of
\* RECEIVING_CHUNKS; a chunk length of 0 or above 250, a timeout of the
\* chunk read and a buffer that holds the end marker each end in the
\* cleared WAITING_MAC; a file is written only by a chunk read that leaves
\* the end marker in the buffer, and then it is written unless open or
\* write fail, whatever the hash.
C29_LegacyStep ==
    /\ (receiver'.state = "WAITING_HASH" /\ receiver.state # "WAITING_HASH")
        => /\ receiver.state = "WAITING_MAC"
           /\ StartsWith(NextLine, MacPrefix)
    /\ (receiver'.state = "RECEIVING_CHUNKS"
            /\ receiver.state # "RECEIVING_CHUNKS")
        => /\ receiver.state = "WAITING_HASH"
           /\ StartsWith(NextLine, HashPrefix)
    /\ (receiver'.image_buffer # receiver.image_buffer
            /\ receiver'.image_buffer # << >>)
        => /\ receiver.state = "RECEIVING_CHUNKS"
           /\ receiver'.state = "RECEIVING_CHUNKS"
           /\ receiver.at = "chunk"
           /\ receiver'.image_buffer = WithChunk
    /\ (ReceiverMoved /\ receiver.state = "RECEIVING_CHUNKS"
            /\ receiver.at = "top" /\ Len(receiver.input) >= 2
            /\ ~(UnpackU16(receiver.input) \in 1..CHUNK_LEN_LIMIT))
        => Cleared(receiver')
    /\ (ReceiverMoved /\ receiver.at = "chunk"
            /\ Len(receiver.input) < receiver.chunk_len)
        => Cleared(receiver') /\ receiver'.saved = receiver.saved
    /\ (ReceiverMoved /\ receiver.at = "chunk"
            /\ Len(receiver.input) >= receiver.chunk_len
            /\ Find(WithChunk, JPEG_EOI, 0) # -1)
        => /\ Cleared(receiver')
           /\ receiver'.last # "save_failed" =>
                 /\ Len(receiver'.saved) = Len(receiver.saved) + 1
                 /\ receiver'.saved[Len(receiver'.saved)].buffer = WithChunk
                 /\ receiver'.saved[Len(receiver'.saved)].match <=>
                       (receiver.received_hash_from_esp =
                          << HexDigest(
                               receiver'.saved[Len(receiver'.saved)]
                                   .jpeg_data) >>)
    /\ receiver'.saved # receiver.saved
        => /\ ReceiverMoved
           /\ receiver.at = "chunk"
           /\ Len(receiver.input) >= receiver.chunk_len
           /\ Find(WithChunk, JPEG_EOI, 0) # -1
           /\ receiver'.saved =
                 Append(receiver.saved,
                        receiver'.saved[Len(receiver'.saved)])

\* C29: the legacy receiver appends chunk bytes only in RECEIVING_CHUNKS,
\* reached only by a 'MAC:' line followed by a 'HASH:' line; every protocol
\* error of that state and every completed save lead to WAITING_MAC with
\* image buffer, MAC and hash cleared; a file is written only when the
\* buffer holds the JPEG end marker, whether or not the hash matches.
C29_LegacyReceiver == []C29_LegacyState /\ [][C29_LegacyStep]_vars

\* an image whose end marker came in two chunks was saved although the hash
\* received is that of another image
C29_Witness ==
    /\ Len(receiver.saved) = 1
    /\ ~receiver.saved[1].match
    /\ receiver.saved[1].jpeg_data = << 1, 255, 217 >>
    /\ receiver.saved[1].buffer = << 1, 255, 217, 2 >>
    /\ receiver.saved[1].mac_suffix = << 97, 45, 98 >>
    /\ Cleared(receiver)
    /\ receiver.last = "saved"

\* the buffer as the timeout check of the next read sees it
Extended == buffer \o SubSeq(stream, pos + 1, pos')

\* the offsets in buf, below limit, at which a whole start marker begins
MarkersBelow(buf, limit) ==
    { i \in 0..(limit - 1) :
        /\ i + Len(START_MARKER) <= Len(buf)
        /\ SubSeq(buf, i + 1, i + Len(START_MARKER)) = START_MARKER }

\* the number of bytes the timeout check drops from buf
TimeoutDrop(buf) ==
    IF Find(buf, START_MARKER, 1) # -1 THEN Find(buf, START_MARKER, 1)
    ELSE Len(buf)

\* C31 (state part): when process_buffer has returned with the timer armed
\* the buffer begins with START_MARKER; when the buffer is empty or begins
\* with something else the timer is not armed.
C31_ArmedOnMarker ==
    /\ frame_start_time # None =>
          /\ Len(buffer) >= Len(START_MARKER)
          /\ SubSeq(buffer, 1, Len(START_MARKER)) = START_MARKER
    /\ (buffer = << >> \/ ~StartsWith(buffer, START_MARKER)) =>
          frame_start_time = None

\* C31 (step part): when the timeout check of a read fires, the buffer it
\* searches from offset 1 begins with the start marker that was the
\* candidate before the read, and that marker is the only one among the
\* bytes it drops.
C31_TimeoutSkipsCandidate ==
    (pos' > pos /\ frame_start_time # None
        /\ now - frame_start_time > FRAME_TIMEOUT)
    => /\ StartsWith(buffer, START_MARKER)
       /\ StartsWith(Extended, START_MARKER)
       /\ MarkersBelow(Extended, TimeoutDrop(Extended)) = { 0 }
       /\ log'[Len(log) + 1].ev = "timeout"
       /\ log'[Len(log) + 1].n \in { 0, TimeoutDrop(Extended) }

\* C31: on return from process_buffer an armed frame timer implies a
\* buffer that begins with START_MARKER, so the search from offset 1 of
\* the timeout check skips no marker but the current candidate.
C31_FrameTimerInvariant ==
    []C31_ArmedOnMarker /\ [][C31_TimeoutSkipsCandidate]_vars

\* the timeout check dropped the first candidate and left the timer unarmed;
\* a later read took the start marker of the second frame as the candidate
\* and armed the timer
C31_Witness ==
    /\ stream = DataA1 \o DataB1
    /\ ~AllDelivered
    /\ \E i \in DOMAIN log : log[i].ev = "timeout"
    /\ Accepted(log) = << >>
    /\ frame_start_time > 1 + FRAME_TIMEOUT
    /\ frame_start_time < now
    /\ StartsWith(buffer, START_MARKER)
    /\ BufferOffset = Len(DataA1)

====
